---- MODULE Spec2Model ----
(***************************************************************************)
(* A model of yate (src/yate-c/yate.c), a kilo-style terminal text editor. *)
(* The editor state is the global struct editorConfig E; bytes and keys    *)
(* are integers as in the C source; a row is a record with the fields of   *)
(* struct erow.  A state of the model is the program blocked in            *)
(* editorReadKey(): either in the main loop (after editorRefreshScreen) or *)
(* inside editorPrompt's loop.                                             *)
(***************************************************************************)
EXTENDS Integers, Sequences, FiniteSets, TLC

VARIABLES
    E,          \* struct editorConfig E
    quit_times, \* static int quit_times of editorProcessKeypress
    pc,         \* where the program is: "main", "save_prompt", "find_prompt", "exit", "fault"
    buf,        \* editorPrompt's input buffer (meaningful inside a prompt)
    io,         \* what the last step handed to open/ftruncate/write: "none" or the outcome
    fault,      \* the undefined behaviour the program ran into, "none" if none
    ctrlq_run,  \* history: number of consecutive Ctrl-Q keypresses just handled
    naive,      \* history: the naive string edit mirrored by SpecEdit
    orig,       \* history: E before the operation of a small specification
    rk,         \* editorReadKey: the results of its read() calls so far, and its outcome
    tty,        \* the terminals on stdin and stderr, the atexit handler, the process
    now,        \* the clock: what time(NULL) returns
    op          \* history: the key or the arguments of the operation applied last

vars == <<E, quit_times, pc, buf, io, fault, ctrlq_run, naive, orig, rk, tty, now, op>>

(***************************************************************************)
(* Program constants                                                       *)
(***************************************************************************)
KILO_TAB_STOP == 4
KILO_QUIT_TIMES == 3
CTRL_KEY(k) == k % 32           \* (k) & 0x1f, for 0 <= k < 128
BACKSPACE == 127
ARROW_LEFT == 1000
ARROW_RIGHT == 1001
ARROW_UP == 1002
ARROW_DOWN == 1003
DEL_KEY == 1004
HOME_KEY == 1005
END_KEY == 1006
PAGE_UP == 1007
PAGE_DOWN == 1008
ESC == 27                       \* '\x1b'
ENTER == 13                     \* '\r'
TAB == 9                        \* '\t'
NL == 10                        \* '\n'
SPACE == 32                     \* ' '
NUL == 0                        \* '\0'
CTRL_Q == CTRL_KEY(113)
CTRL_S == CTRL_KEY(115)
CTRL_F == CTRL_KEY(102)
CTRL_H == CTRL_KEY(104)
CTRL_L == CTRL_KEY(108)
NoName == <<>>                  \* E.filename == NULL

(***************************************************************************)
(* Bounds of the model                                                     *)
(***************************************************************************)
MaxFileLen == 3     \* bytes of the document as a file: editorRowsToString's length
MaxDirty == 2       \* the dirty counter
MaxBuf == 1         \* bytes typed at a prompt
ScreenRows == 1     \* E.screenrows, the text area's height
ScreenCols == 2     \* E.screencols

\* The bytes typed: the printable 'a', and the tab, which the default case
\* of editorProcessKeypress inserts like any other byte.
Bytes == {97, TAB}

Keys == Bytes \cup {ENTER, ESC, BACKSPACE, CTRL_Q, CTRL_S, CTRL_F, CTRL_H, CTRL_L,
                    ARROW_LEFT, ARROW_RIGHT, ARROW_UP, ARROW_DOWN, DEL_KEY,
                    HOME_KEY, END_KEY, PAGE_UP, PAGE_DOWN}

\* iscntrl(c) for the C locale, on the values editorReadKey returns
iscntrl(c) == c < 32 \/ c = 127

(***************************************************************************)
(* Terminal: the key decoder                                               *)
(***************************************************************************)
\* What one read(STDIN_FILENO, &c, 1) of editorReadKey yields: a byte, or
READ_NONE == -1     \* no byte: read returned 0 (VTIME ran out), or -1 with EAGAIN
READ_FAIL == -2     \* read returned -1 with another errno

\* the bytes the terminal sends: ESC [ O ~ 0-9 A-H, 'a' and DEL
TerminalBytes == {ESC, 91, 79, 126, 97, BACKSPACE} \cup (48..57) \cup (65..72)
ReadResults == TerminalBytes \cup {READ_NONE, READ_FAIL}

Returned(key) == [status |-> "returned", key |-> key]
StillReading == [status |-> "reading", key |-> NUL]
Died == [status |-> "died", key |-> NUL]

\* the switch with the keys of '4' and '5' exchanged
TildeKeySwapped(d) ==
    CASE d = 49 -> HOME_KEY
      [] d = 51 -> DEL_KEY
      [] d = 52 -> PAGE_UP
      [] d = 53 -> END_KEY
      [] d = 54 -> PAGE_DOWN
      [] d = 55 -> HOME_KEY
      [] d = 56 -> END_KEY
      [] OTHER -> ESC

\* switch(seq[1]) after ESC [ digit ~
TildeKey(d) ==
    CASE d = 49 -> HOME_KEY
      [] d = 51 -> DEL_KEY
      [] d = 52 -> END_KEY
      [] d = 53 -> PAGE_UP
      [] d = 54 -> PAGE_DOWN
      [] d = 55 -> HOME_KEY
      [] d = 56 -> END_KEY
      [] OTHER -> ESC

\* switch(seq[1]) after ESC [
BracketKey(b) ==
    CASE b = 65 -> ARROW_UP
      [] b = 66 -> ARROW_DOWN
      [] b = 67 -> ARROW_RIGHT
      [] b = 68 -> ARROW_LEFT
      [] b = 72 -> HOME_KEY
      [] b = 70 -> END_KEY
      [] OTHER -> ESC

\* switch(seq[1]) after ESC O
OKey(b) ==
    CASE b = 72 -> HOME_KEY
      [] b = 70 -> END_KEY
      [] OTHER -> ESC

\* editorReadKey after c == '\x1b' reading four more bytes whatever they are
ReadKeyEscapeGreedy(seq) ==
    IF Len(seq) < 1 THEN StillReading
    ELSE IF seq[1] < 0 THEN Returned(ESC)
    ELSE IF Len(seq) < 2 THEN StillReading
    ELSE IF seq[2] < 0 THEN Returned(ESC)
    ELSE IF Len(seq) < 3 THEN StillReading
    ELSE IF seq[3] < 0 THEN Returned(ESC)
    ELSE IF Len(seq) < 4 THEN StillReading
    ELSE Returned(ESC)

\* editorReadKey after c == '\x1b', seq being what the next reads yielded
ReadKeyEscape(seq) ==
    IF Len(seq) < 1 THEN StillReading
    ELSE IF seq[1] < 0 THEN Returned(ESC)
    ELSE IF Len(seq) < 2 THEN StillReading
    ELSE IF seq[2] < 0 THEN Returned(ESC)
    ELSE IF seq[1] = 91
         THEN IF seq[2] >= 48 /\ seq[2] <= 57
              THEN IF Len(seq) < 3 THEN StillReading
                   ELSE IF seq[3] < 0 THEN Returned(ESC)
                   ELSE IF seq[3] = 126 THEN Returned(TildeKey(seq[2]))
                   ELSE Returned(ESC)
              ELSE Returned(BracketKey(seq[2]))
         ELSE IF seq[1] = 79 THEN Returned(OKey(seq[2]))
         ELSE Returned(ESC)

\* editorReadKey on the results of its successive read() calls
RECURSIVE ReadKeyLoop(_, _)
ReadKeyLoop(reads, k) ==
    IF k > Len(reads) THEN StillReading
    ELSE IF reads[k] = READ_FAIL THEN Died
    ELSE IF reads[k] = READ_NONE THEN ReadKeyLoop(reads, k + 1)
    ELSE IF reads[k] = ESC THEN ReadKeyEscape(SubSeq(reads, k + 1, Len(reads)))
    ELSE Returned(reads[k])

editorReadKey(reads) == ReadKeyLoop(reads, 1)

\* rk before the first read() of a call
NoRead == [reads |-> <<>>, res |-> StillReading]

(***************************************************************************)
(* Terminal: attributes and process exit                                   *)
(***************************************************************************)
\* The process starts with stdin and stderr on one terminal or on two, the
\* attributes of each as the shell left them, no exit handler registered.
TtyStart(same) ==
    [same |-> same, stdin |-> "original", stderr |-> "original",
     atexit |-> FALSE, restore |-> "not_called", proc |-> "running"]

\* a successful tcsetattr(fd, TCSAFLUSH, attrs)
tcsetattr(t, fd, attrs) ==
    IF t.same THEN [t EXCEPT !.stdin = attrs, !.stderr = attrs]
    ELSE IF fd = "stdin" THEN [t EXCEPT !.stdin = attrs]
    ELSE [t EXCEPT !.stderr = attrs]

\* disableRawMode: E.original_terminal, read from stdin, is set on stdin;
\* when tcsetattr fails, die() ends the process from inside the handler
disableRawMode(t, ok) ==
    IF ok THEN [tcsetattr(t, "stdin", "original") EXCEPT !.restore = "ok"]
    ELSE [t EXCEPT !.restore = "failed"]

\* exit(): the handler registered with atexit runs, the process is gone
Exit(t, ok) ==
    [(IF t.atexit THEN disableRawMode(t, ok) ELSE t) EXCEPT !.proc = "exited"]

\* die(s): two writes, perror, exit(1)
die(t, ok) == Exit(t, ok)

\* enableRawMode: tcgetattr(STDIN_FILENO), atexit(disableRawMode),
\* tcsetattr(STDERR_FILENO, raw)
TermiosOutcomes == {"ok", "tcgetattr_failed", "tcsetattr_failed"}
enableRawMode(t, outcome, ok) ==
    IF outcome = "tcgetattr_failed" THEN die(t, ok)
    ELSE LET t1 == [t EXCEPT !.atexit = TRUE]
         IN  IF outcome = "tcsetattr_failed" THEN die(t1, ok)
             ELSE tcsetattr(t1, "stderr", "raw")

\* the process killed by a signal: no exit handler runs
Killed(t) == [t EXCEPT !.proc = "killed"]

\* the terminal while the editor runs on a single terminal
TtyRaw == enableRawMode(TtyStart(TRUE), "ok", TRUE)

(***************************************************************************)
(* Row operations                                                          *)
(***************************************************************************)
SubSeqFrom(s, from) == SubSeq(s, from, Len(s))

\* row->chars[j] (0-based).  chars[size] is the terminating NUL; a read past
\* it leaves the allocation and yields whatever lies there: g[j - size].
CharAt(row, j, g) ==
    IF j < row.size THEN row.chars[j + 1]
    ELSE IF j = row.size THEN NUL
    ELSE g[j - row.size]

RECURSIVE CxToRxLoop(_, _, _, _, _)
CxToRxLoop(row, cx, g, j, rx) ==
    IF j < cx
    THEN LET rx1 == IF CharAt(row, j, g) = TAB
                    THEN rx + (KILO_TAB_STOP - 1) - (rx % KILO_TAB_STOP)
                    ELSE rx
         IN  CxToRxLoop(row, cx, g, j + 1, rx1 + 1)
    ELSE rx

editorRowCxToRxG(row, cx, g) == CxToRxLoop(row, cx, g, 0, 0)

\* editorRowCxToRx counting a tab as one column
editorRowCxToRxNoTabs(row, cx) == cx

editorRowCxToRx(row, cx) == editorRowCxToRxG(row, cx, <<>>)

RECURSIVE RxToCxLoop(_, _, _, _)
RxToCxLoop(row, rx, cx, cur_rx) ==
    IF cx < row.size
    THEN LET r1 == IF row.chars[cx + 1] = TAB
                   THEN cur_rx + (KILO_TAB_STOP - 1) - (cur_rx % KILO_TAB_STOP)
                   ELSE cur_rx
             r2 == r1 + 1
         IN  IF r2 > rx THEN cx ELSE RxToCxLoop(row, rx, cx + 1, r2)
    ELSE cx

\* editorRowRxToCx taking every byte for one column wide
editorRowRxToCxNoTabs(row, rx) == IF rx < row.size THEN rx ELSE row.size

editorRowRxToCx(row, rx) == RxToCxLoop(row, rx, 0, 0)

\* the inner while of editorUpdateRow: pad with spaces to the next tab stop
RECURSIVE PadToTabStop(_)
PadToTabStop(render) ==
    IF Len(render) % KILO_TAB_STOP # 0
    THEN PadToTabStop(Append(render, SPACE))
    ELSE render

RECURSIVE RenderLoop(_, _, _)
RenderLoop(row, j, render) ==
    IF j < row.size
    THEN IF row.chars[j + 1] = TAB
         THEN RenderLoop(row, j + 1, PadToTabStop(Append(render, SPACE)))
         ELSE RenderLoop(row, j + 1, Append(render, row.chars[j + 1]))
    ELSE render

editorUpdateRow(row) ==
    LET render == RenderLoop(row, 0, <<>>)
    IN  [row EXCEPT !.render = render, !.rsize = Len(render)]

InsertAt(s, at, x) == SubSeq(s, 1, at) \o <<x>> \o SubSeqFrom(s, at + 1)
RemoveAt(s, at) == SubSeq(s, 1, at) \o SubSeqFrom(s, at + 2)

\* editorInsertRow without E.dirty++
editorInsertRowNoDirty(e, at, s) ==
    IF at < 0 \/ at > e.numrows THEN e
    ELSE LET new == editorUpdateRow([size |-> Len(s), chars |-> s,
                                     rsize |-> 0, render |-> <<>>])
         IN  [e EXCEPT !.row = InsertAt(e.row, at, new),
                       !.numrows = e.numrows + 1]

\* editorInsertRow moving a position out of range to the nearest end
editorInsertRowClamped(e, at, s) ==
    LET at1 == IF at < 0 THEN 0 ELSE IF at > e.numrows THEN e.numrows ELSE at
        new == editorUpdateRow([size |-> Len(s), chars |-> s,
                                rsize |-> 0, render |-> <<>>])
    IN  [e EXCEPT !.row = InsertAt(e.row, at1, new),
                  !.numrows = e.numrows + 1,
                  !.dirty = e.dirty + 1]

editorInsertRow(e, at, s) ==
    IF at < 0 \/ at > e.numrows THEN e
    ELSE LET new == editorUpdateRow([size |-> Len(s), chars |-> s,
                                     rsize |-> 0, render |-> <<>>])
         IN  [e EXCEPT !.row = InsertAt(e.row, at, new),
                       !.numrows = e.numrows + 1,
                       !.dirty = e.dirty + 1]

editorDelRow(e, at) ==
    IF at < 0 \/ at >= e.numrows THEN e
    ELSE [e EXCEPT !.row = RemoveAt(e.row, at),
                   !.numrows = e.numrows - 1,
                   !.dirty = e.dirty + 1]

\* editorRowInsertChar with the position ignored: the byte goes to the front
editorRowInsertCharFront(e, i, at, c) ==
    LET row == e.row[i + 1]
        r1  == [row EXCEPT !.chars = <<c>> \o row.chars, !.size = row.size + 1]
    IN  [e EXCEPT !.row[i + 1] = editorUpdateRow(r1), !.dirty = e.dirty + 1]

\* editorRowInsertChar(&E.row[i], at, c)
editorRowInsertChar(e, i, at, c) ==
    LET row == e.row[i + 1]
        at1 == IF at < 0 \/ at > row.size THEN row.size ELSE at
        r1  == [row EXCEPT !.chars = InsertAt(row.chars, at1, c),
                           !.size = row.size + 1]
    IN  [e EXCEPT !.row[i + 1] = editorUpdateRow(r1), !.dirty = e.dirty + 1]

\* editorRowAppendString(&E.row[i], s, len)
editorRowAppendString(e, i, s) ==
    LET row == e.row[i + 1]
        r1  == [row EXCEPT !.chars = row.chars \o s, !.size = row.size + Len(s)]
    IN  [e EXCEPT !.row[i + 1] = editorUpdateRow(r1), !.dirty = e.dirty + 1]

\* editorRowDelChar without its call of editorUpdateRow
editorRowDelCharStale(e, i, at) ==
    LET row == e.row[i + 1]
    IN  IF at < 0 \/ at >= row.size THEN e
        ELSE [e EXCEPT !.row[i + 1] = [row EXCEPT !.chars = RemoveAt(row.chars, at),
                                                  !.size = row.size - 1],
                       !.dirty = e.dirty + 1]

\* editorRowDelChar(&E.row[i], at)
editorRowDelChar(e, i, at) ==
    LET row == e.row[i + 1]
    IN  IF at < 0 \/ at >= row.size THEN e
        ELSE LET r1 == [row EXCEPT !.chars = RemoveAt(row.chars, at),
                                   !.size = row.size - 1]
             IN  [e EXCEPT !.row[i + 1] = editorUpdateRow(r1),
                           !.dirty = e.dirty + 1]

(***************************************************************************)
(* Editor operations                                                       *)
(***************************************************************************)
\* editorInsertChar without E.cx++
editorInsertCharNoAdvance(e, c) ==
    LET e1 == IF e.cy = e.numrows THEN editorInsertRow(e, e.numrows, <<>>) ELSE e
    IN  editorRowInsertChar(e1, e1.cy, e1.cx, c)

editorInsertChar(e, c) ==
    LET e1 == IF e.cy = e.numrows THEN editorInsertRow(e, e.numrows, <<>>) ELSE e
        e2 == editorRowInsertChar(e1, e1.cy, e1.cx, c)
    IN  [e2 EXCEPT !.cx = e2.cx + 1]

\* What editorInsertNewLine runs into with the cursor at (cx, cy): with
\* cx # 0 it takes &E.row[E.cy] and reads row->chars and row->size without
\* looking at numrows, and passes row->size - E.cx as a size_t length.
InsertNewLineFault(e) ==
    IF e.cx = 0 THEN "none"
    ELSE IF e.cy >= e.numrows THEN "row_index_past_end"
    ELSE IF e.cx > e.row[e.cy + 1].size THEN "split_past_end"
    ELSE "none"

\* editorInsertNewLine that leaves the split row at its full length
editorInsertNewLineNoTruncate(e) ==
    LET e2 == IF e.cx = 0
              THEN editorInsertRow(e, e.cy, <<>>)
              ELSE editorInsertRow(e, e.cy + 1,
                                   SubSeqFrom(e.row[e.cy + 1].chars, e.cx + 1))
    IN  [e2 EXCEPT !.cy = e.cy + 1, !.cx = 0]

\* editorInsertNewLine opening the empty row below the current row
editorInsertNewLineBelow(e) ==
    LET e2 == IF e.cx = 0
              THEN editorInsertRow(e, e.cy + 1, <<>>)
              ELSE LET row == e.row[e.cy + 1]
                       e1  == editorInsertRow(e, e.cy + 1, SubSeqFrom(row.chars, e.cx + 1))
                       r1  == [e1.row[e.cy + 1] EXCEPT
                                  !.size = e.cx,
                                  !.chars = SubSeq(row.chars, 1, e.cx)]
                   IN  [e1 EXCEPT !.row[e.cy + 1] = editorUpdateRow(r1)]
    IN  [e2 EXCEPT !.cy = e.cy + 1, !.cx = 0]

\* editorInsertNewLine where it is defined (InsertNewLineFault(e) = "none")
editorInsertNewLine(e) ==
    LET e2 == IF e.cx = 0
              THEN editorInsertRow(e, e.cy, <<>>)
              ELSE LET row == e.row[e.cy + 1]
                       e1  == editorInsertRow(e, e.cy + 1, SubSeqFrom(row.chars, e.cx + 1))
                       r1  == [e1.row[e.cy + 1] EXCEPT
                                  !.size = e.cx,
                                  !.chars = SubSeq(row.chars, 1, e.cx)]
                   IN  [e1 EXCEPT !.row[e.cy + 1] = editorUpdateRow(r1)]
    IN  [e2 EXCEPT !.cy = e.cy + 1, !.cx = 0]

\* The outcomes of the undefined behaviour.  "split_past_end": editorInsertRow
\* gets a length near SIZE_MAX and its memcpy faults, the process dies where it
\* is.  "row_index_past_end": editorInsertRow returns at once (at > numrows);
\* the stores through &E.row[numrows] either fault, or land in memory that is
\* not a row and the function finishes with E.cy++ and E.cx = 0.
InsertNewLineFaultOutcomes(e, f) ==
    IF f = "row_index_past_end"
    THEN {e, [e EXCEPT !.cy = e.cy + 1, !.cx = 0]}
    ELSE {e}

\* editorDelChar counting a change also where it deletes nothing
editorDelCharCounting(e) ==
    IF e.cy = e.numrows THEN e
    ELSE IF e.cx = 0 /\ e.cy = 0 THEN [e EXCEPT !.dirty = e.dirty + 1]
    ELSE e

\* editorDelChar taking the previous row's length after the rows are joined
editorDelCharCursorAfter(e) ==
    IF e.cy = e.numrows THEN e
    ELSE IF e.cx = 0 /\ e.cy = 0 THEN e
    ELSE IF e.cx > 0
         THEN LET e1 == editorRowDelChar(e, e.cy, e.cx - 1)
              IN  [e1 EXCEPT !.cx = e.cx - 1]
         ELSE LET row == e.row[e.cy + 1]
                  e2  == editorRowAppendString(e, e.cy - 1, SubSeq(row.chars, 1, row.size))
                  e3  == editorDelRow(e2, e.cy)
              IN  [e3 EXCEPT !.cy = e.cy - 1, !.cx = e2.row[e.cy].size]

editorDelChar(e) ==
    IF e.cy = e.numrows THEN e
    ELSE IF e.cx = 0 /\ e.cy = 0 THEN e
    ELSE IF e.cx > 0
         THEN LET e1 == editorRowDelChar(e, e.cy, e.cx - 1)
              IN  [e1 EXCEPT !.cx = e.cx - 1]
         ELSE LET row == e.row[e.cy + 1]
                  e1  == [e EXCEPT !.cx = e.row[e.cy].size]
                  e2  == editorRowAppendString(e1, e.cy - 1, SubSeq(row.chars, 1, row.size))
                  e3  == editorDelRow(e2, e.cy)
              IN  [e3 EXCEPT !.cy = e.cy - 1]

(***************************************************************************)
(* File I/O                                                                *)
(***************************************************************************)
RECURSIVE RowsToStringLoop(_, _, _)
RowsToStringLoop(e, j, out) ==
    IF j < e.numrows
    THEN RowsToStringLoop(e, j + 1,
             out \o SubSeq(e.row[j + 1].chars, 1, e.row[j + 1].size) \o <<NL>>)
    ELSE out

editorRowsToString(e) == RowsToStringLoop(e, 0, <<>>)

\* E.statusmsg_time = time(NULL): the clock is read at the call
editorSetStatusMessage(e, fmt, arg) ==
    [e EXCEPT !.statusmsg = [fmt |-> fmt, arg |-> arg], !.statusmsg_time = now]

\* how the open, ftruncate, write of editorSave end
IOOutcomes == {"ok", "open_failed", "ftruncate_failed", "write_failed"}
\* editorSave from "int len" on: E.filename is set
SaveToDisk(e, outcome) ==
    LET len == Len(editorRowsToString(e))
    IN  IF outcome = "ok"
        THEN editorSetStatusMessage([e EXCEPT !.dirty = 0],
                                    "%d bytes written to disk", <<len>>)
        ELSE editorSetStatusMessage(e, "Can't save! I/O error: %s", <<>>)

(***************************************************************************)
(* Find                                                                    *)
(***************************************************************************)
\* strstr(haystack, needle) - haystack, or -1 for NULL
RECURSIVE StrStrFrom(_, _, _)
StrStrFrom(h, n, k) ==
    IF k + Len(n) > Len(h) THEN -1
    ELSE IF SubSeq(h, k + 1, k + Len(n)) = n THEN k
    ELSE StrStrFrom(h, n, k + 1)

strstr(h, n) == StrStrFrom(h, n, 0)

RECURSIVE FindLoop(_, _, _)
FindLoop(e, query, i) ==
    IF i < e.numrows
    THEN LET row == e.row[i + 1]
             match == strstr(row.render, query)
         IN  IF match # -1
             THEN [e EXCEPT !.cy = i,
                            !.cx = editorRowRxToCx(row, match),
                            !.rowoff = e.numrows]
             ELSE FindLoop(e, query, i + 1)
    ELSE e

\* editorFind that leaves E.rowoff alone on a match
FindQueryNoScroll(e, query) == [FindLoop(e, query, 0) EXCEPT !.rowoff = e.rowoff]

\* editorFind that moves the cursor to the document's start on a miss
FindQueryMissHome(e, query) ==
    LET e1 == FindLoop(e, query, 0)
    IN  IF e1 = e THEN [e EXCEPT !.cx = 0, !.cy = 0] ELSE e1

\* editorFind after editorPrompt returned a query
FindQuery(e, query) == FindLoop(e, query, 0)

(***************************************************************************)
(* Output                                                                  *)
(***************************************************************************)
\* The bytes past the row's NUL that editorRowCxToRx reads when E.cx is
\* beyond row->size + 1: each is a tab or not.
Garbage(e) ==
    IF e.cy < e.numrows /\ e.cx > e.row[e.cy + 1].size + 1
    THEN [1..(e.cx - e.row[e.cy + 1].size - 1) -> {NUL, TAB}]
    ELSE {<<>>}

\* editorScroll with rowoff and coloff one short when scrolling forward
editorScrollOffByOne(e, g) ==
    LET rx == IF e.cy < e.numrows
              THEN editorRowCxToRxG(e.row[e.cy + 1], e.cx, g)
              ELSE e.cx
        ro1 == IF e.cy < e.rowoff THEN e.cy ELSE e.rowoff
        ro2 == IF e.cy >= ro1 + e.screenrows THEN e.cy - e.screenrows ELSE ro1
        co1 == IF rx < e.coloff THEN rx ELSE e.coloff
        co2 == IF rx >= co1 + e.screencols THEN rx - e.screencols ELSE co1
    IN  [e EXCEPT !.rx = rx, !.rowoff = ro2, !.coloff = co2]

editorScroll(e, g) ==
    LET rx == IF e.cy < e.numrows
              THEN editorRowCxToRxG(e.row[e.cy + 1], e.cx, g)
              ELSE e.cx
        ro1 == IF e.cy < e.rowoff THEN e.cy ELSE e.rowoff
        ro2 == IF e.cy >= ro1 + e.screenrows THEN e.cy - e.screenrows + 1 ELSE ro1
        co1 == IF rx < e.coloff THEN rx ELSE e.coloff
        co2 == IF rx >= co1 + e.screencols THEN rx - e.screencols + 1 ELSE co1
    IN  [e EXCEPT !.rx = rx, !.rowoff = ro2, !.coloff = co2]

\* the state change of editorRefreshScreen
editorRefreshScreen(e, g) == editorScroll(e, g)

(***************************************************************************)
(* Output: the append buffer of one render pass.  The buffer is kept as    *)
(* the sequence of abAppend calls, each a chunk [kind, s, len]: an escape  *)
(* sequence or literal (s a string, ESC and CRLF written out), a slice of  *)
(* a row's render (s the bytes), or a formatted text (s what is formatted) *)
(***************************************************************************)
YATE_VERSION == "0.0.1"

abAppend(ab, kind, s, len) == Append(ab, [kind |-> kind, s |-> s, len |-> len])

\* "ESC..." stands for the bytes \x1b ..., "CRLF" for \r\n
Esc(ab, s) == abAppend(ab, "esc", s, Len(s) - 2)
Lit(ab, s) == abAppend(ab, "lit", s, IF s = "CRLF" THEN 2 ELSE Len(s))

\* n times abAppend(ab, " ", 1)
Spaces(ab, n) == ab \o [i \in 1..n |-> [kind |-> "lit", s |-> " ", len |-> 1]]

\* the length of "%d" for n >= 0
RECURSIVE Digits(_)
Digits(n) == IF n < 10 THEN 1 ELSE 1 + Digits(n \div 10)

Min(a, b) == IF a < b THEN a ELSE b

\* the welcome line with the banner at the left edge
DrawFillerRowUncentred(e, y, ab) ==
    IF e.numrows = 0 /\ y = e.screenrows \div 3
    THEN LET welcomelen == Min(Len("Yate Editor -- version ") + Len(YATE_VERSION),
                               e.screencols)
         IN  abAppend(ab, "welcome", YATE_VERSION, welcomelen)
    ELSE Lit(ab, "~")

\* editorDrawRows for a screen row past the document: filerow >= E.numrows
DrawFillerRow(e, y, ab) ==
    IF e.numrows = 0 /\ y = e.screenrows \div 3
    THEN LET welcomelen == Min(Len("Yate Editor -- version ") + Len(YATE_VERSION),
                               e.screencols)
             padding == (e.screencols - welcomelen) \div 2
             ab1 == IF padding # 0 THEN Spaces(Lit(ab, "~"), padding - 1) ELSE ab
         IN  abAppend(ab1, "welcome", YATE_VERSION, welcomelen)
    ELSE Lit(ab, "~")

\* editorDrawRows for a screen row of the document
DrawFileRow(e, filerow, ab) ==
    LET row == e.row[filerow + 1]
        len0 == row.rsize - e.coloff
        len == IF len0 < 0 THEN 0 ELSE Min(len0, e.screencols)
    IN  abAppend(ab, "render", SubSeq(row.render, e.coloff + 1, e.coloff + len), len)

\* one turn of editorDrawRows' loop: what it appends for screen row y
DrawRow(e, y) ==
    LET filerow == y + e.rowoff
        ab1 == IF filerow >= e.numrows
               THEN DrawFillerRow(e, y, <<>>)
               ELSE DrawFileRow(e, filerow, <<>>)
    IN  Lit(Esc(ab1, "ESC[K"), "CRLF")

RECURSIVE DrawRowsLoop(_, _)
DrawRowsLoop(e, y) ==
    IF y < e.screenrows THEN DrawRow(e, y) \o DrawRowsLoop(e, y + 1) ELSE <<>>

editorDrawRows(e, ab) == ab \o DrawRowsLoop(e, 0)

\* the while loop of editorDrawStatusBar padding to the right edge only
StatusPadLoopNoRight(screencols, len, rlen) ==
    <<IF len < screencols THEN screencols - len ELSE 0, FALSE>>

\* the while loop of editorDrawStatusBar: <<spaces appended, rstatus appended>>
RECURSIVE StatusPadLoop(_, _, _)
StatusPadLoop(screencols, len, rlen) ==
    IF len < screencols
    THEN IF screencols - len = rlen
         THEN <<0, TRUE>>
         ELSE LET rest == StatusPadLoop(screencols, len + 1, rlen)
              IN  <<rest[1] + 1, rest[2]>>
    ELSE <<0, FALSE>>

editorDrawStatusBar(e, ab) ==
    LET name == IF e.filename = NoName THEN Len("[No Name]") ELSE Min(Len(e.filename), 20)
        len0 == name + Len(" - ") + Digits(e.numrows) + Len(" lines ")
                + (IF e.dirty # 0 THEN Len("(modified)") ELSE 0)
        rlen == Digits(e.cy + 1) + 1 + Digits(e.numrows)
        len == Min(len0, e.screencols)
        ab1 == abAppend(Esc(ab, "ESC[7m"), "status",
                        <<e.filename, e.numrows, e.dirty # 0>>, len)
        pad == StatusPadLoop(e.screencols, len, rlen)
        ab2 == Spaces(ab1, pad[1])
        ab3 == IF pad[2]
               THEN abAppend(ab2, "rstatus", <<e.cy + 1, e.numrows>>, rlen)
               ELSE ab2
    IN  Lit(Esc(ab3, "ESC[m"), "CRLF")

\* strlen(E.statusmsg): the format with its one conversion filled in, cut to
\* the 79 bytes E.statusmsg holds (the text of strerror is not counted: the
\* message is longer than the screens of the model are wide without it)
MsgLen(msg) ==
    LET arglen == IF msg.fmt = "" THEN 0
                  ELSE IF msg.arg = <<>> THEN 0
                  ELSE IF msg.fmt \in {"%d bytes written to disk",
                           "WARNING!!! File has unsaved changes. Press Ctrl-Q %d more times to quit."}
                       THEN Digits(msg.arg[1])
                       ELSE Len(msg.arg)
        conv == IF msg.fmt \in {"", "Save aborted",
                                "HELP: Ctrl-S = save | Ctrl-Q = quit | Ctrl-F = find"}
                THEN 0 ELSE 2
    IN  Min(Len(msg.fmt) - conv + arglen, 79)

\* fresh: time(NULL) - E.statusmsg_time < 5
editorDrawMessageBar(e, ab, fresh) ==
    LET msglen == Min(MsgLen(e.statusmsg), e.screencols)
        ab1 == Esc(ab, "ESC[K")
    IN  IF msglen # 0 /\ fresh THEN abAppend(ab1, "msg", e.statusmsg, msglen) ELSE ab1

\* editorRefreshScreen that shows the cursor again before it is positioned
RefreshBufferShowEarly(e, fresh) ==
    LET ab1 == Esc(Esc(<<>>, "ESC[?25l"), "ESC[H")
        ab2 == editorDrawMessageBar(e, editorDrawStatusBar(e, editorDrawRows(e, ab1)), fresh)
        ab3 == Esc(ab2, "ESC[?25h")
    IN  abAppend(ab3, "cursor", <<(e.cy - e.rowoff) + 1, (e.rx - e.coloff) + 1>>,
                 4 + Digits((e.cy - e.rowoff) + 1) + Digits((e.rx - e.coloff) + 1))

\* editorRefreshScreen after editorScroll: the append buffer at the write
RefreshBuffer(e, fresh) ==
    LET ab1 == Esc(Esc(<<>>, "ESC[?25l"), "ESC[H")
        ab2 == editorDrawMessageBar(e, editorDrawStatusBar(e, editorDrawRows(e, ab1)), fresh)
        ab3 == abAppend(ab2, "cursor", <<(e.cy - e.rowoff) + 1, (e.rx - e.coloff) + 1>>,
                        4 + Digits((e.cy - e.rowoff) + 1) + Digits((e.rx - e.coloff) + 1))
    IN  Esc(ab3, "ESC[?25h")

\* the message still taken for fresh when it is 5 seconds old
MessageFreshInclusive(e, t) == t - e.statusmsg_time <= 5

\* time(NULL) - E.statusmsg_time < 5, time(NULL) being t
MessageFresh(e, t) == t - e.statusmsg_time < 5

\* the append buffer of the editorRefreshScreen made at the time t
RefreshBufferAt(e, t) == RefreshBuffer(e, MessageFresh(e, t))

\* the write() calls of one editorRefreshScreen, E being scrolled
RefreshWrites(e, fresh) == << [fd |-> "stdout", ab |-> RefreshBuffer(e, fresh)] >>

(***************************************************************************)
(* Input                                                                   *)
(***************************************************************************)
\* editorMoveCursor without the final clamp of E.cx to the row's length
editorMoveCursorNoClamp(e, key) ==
    LET hasrow == e.cy < e.numrows
    IN  CASE key = ARROW_LEFT ->
               IF e.cx # 0 THEN [e EXCEPT !.cx = e.cx - 1]
               ELSE IF e.cy > 0
                    THEN [e EXCEPT !.cy = e.cy - 1, !.cx = e.row[e.cy].size]
                    ELSE e
          [] key = ARROW_RIGHT ->
               IF hasrow /\ e.cx < e.row[e.cy + 1].size
               THEN [e EXCEPT !.cx = e.cx + 1]
               ELSE IF hasrow /\ e.cx = e.row[e.cy + 1].size
                    THEN [e EXCEPT !.cy = e.cy + 1, !.cx = 0]
                    ELSE e
          [] key = ARROW_UP ->
               IF e.cy # 0 THEN [e EXCEPT !.cy = e.cy - 1] ELSE e
          [] key = ARROW_DOWN ->
               IF e.cy < e.numrows THEN [e EXCEPT !.cy = e.cy + 1] ELSE e
          [] OTHER -> e

\* editorMoveCursor stopping at the ends of a row instead of changing rows
editorMoveCursorNoWrap(e, key) ==
    LET hasrow == e.cy < e.numrows
        e1 == CASE key = ARROW_LEFT ->
                     IF e.cx # 0 THEN [e EXCEPT !.cx = e.cx - 1] ELSE e
                [] key = ARROW_RIGHT ->
                     IF hasrow /\ e.cx < e.row[e.cy + 1].size
                     THEN [e EXCEPT !.cx = e.cx + 1]
                     ELSE e
                [] key = ARROW_UP ->
                     IF e.cy # 0 THEN [e EXCEPT !.cy = e.cy - 1] ELSE e
                [] key = ARROW_DOWN ->
                     IF e.cy < e.numrows THEN [e EXCEPT !.cy = e.cy + 1] ELSE e
                [] OTHER -> e
        rowlen == IF e1.cy >= e1.numrows THEN 0 ELSE e1.row[e1.cy + 1].size
    IN  IF e1.cx > rowlen THEN [e1 EXCEPT !.cx = rowlen] ELSE e1

editorMoveCursor(e, key) ==
    LET hasrow == e.cy < e.numrows
        e1 == CASE key = ARROW_LEFT ->
                     IF e.cx # 0 THEN [e EXCEPT !.cx = e.cx - 1]
                     ELSE IF e.cy > 0
                          THEN [e EXCEPT !.cy = e.cy - 1, !.cx = e.row[e.cy].size]
                          ELSE e
                [] key = ARROW_RIGHT ->
                     IF hasrow /\ e.cx < e.row[e.cy + 1].size
                     THEN [e EXCEPT !.cx = e.cx + 1]
                     ELSE IF hasrow /\ e.cx = e.row[e.cy + 1].size
                          THEN [e EXCEPT !.cy = e.cy + 1, !.cx = 0]
                          ELSE e
                [] key = ARROW_UP ->
                     IF e.cy # 0 THEN [e EXCEPT !.cy = e.cy - 1] ELSE e
                [] key = ARROW_DOWN ->
                     IF e.cy < e.numrows THEN [e EXCEPT !.cy = e.cy + 1] ELSE e
                [] OTHER -> e
        rowlen == IF e1.cy >= e1.numrows THEN 0 ELSE e1.row[e1.cy + 1].size
    IN  IF e1.cx > rowlen THEN [e1 EXCEPT !.cx = rowlen] ELSE e1

RECURSIVE MoveTimes(_, _, _)
MoveTimes(e, key, times) ==
    IF times = 0 THEN e ELSE MoveTimes(editorMoveCursor(e, key), key, times - 1)

KeyHome(e) == [e EXCEPT !.cx = 0]

\* case END_KEY: the assignment of the row's size is overwritten
KeyEnd(e) ==
    LET e1 == IF e.cy < e.numrows THEN [e EXCEPT !.cx = e.row[e.cy + 1].size] ELSE e
    IN  [e1 EXCEPT !.cx = e.screencols - 1]

KeyDelete(e, c) ==
    editorDelChar(IF c = DEL_KEY THEN editorMoveCursor(e, ARROW_RIGHT) ELSE e)

\* PAGE_UP and PAGE_DOWN stepping from where the cursor is
KeyPageFromCursor(e, c) ==
    MoveTimes(e, IF c = PAGE_UP THEN ARROW_UP ELSE ARROW_DOWN, e.screenrows)

KeyPage(e, c) ==
    LET e1 == IF c = PAGE_UP
              THEN [e EXCEPT !.cy = e.rowoff]
              ELSE LET y == e.rowoff + e.screenrows - 1
                   IN  [e EXCEPT !.cy = IF y > e.numrows THEN e.numrows ELSE y]
    IN  MoveTimes(e1, IF c = PAGE_UP THEN ARROW_UP ELSE ARROW_DOWN, e.screenrows)

\* The switch of editorProcessKeypress for the keys that neither quit, save,
\* find nor run into InsertNewLineFault.
ProcessKey(e, c) ==
    CASE c = ENTER -> editorInsertNewLine(e)
      [] c = HOME_KEY -> KeyHome(e)
      [] c = END_KEY -> KeyEnd(e)
      [] c \in {BACKSPACE, CTRL_H, DEL_KEY} -> KeyDelete(e, c)
      [] c \in {PAGE_UP, PAGE_DOWN} -> KeyPage(e, c)
      [] c \in {ARROW_UP, ARROW_DOWN, ARROW_LEFT, ARROW_RIGHT} -> editorMoveCursor(e, c)
      [] c \in {CTRL_L, ESC} -> e
      [] OTHER -> editorInsertChar(e, c)

(***************************************************************************)
(* Startup                                                                 *)
(***************************************************************************)
initEditor ==
    [cx |-> 0, cy |-> 0, rx |-> 0, numrows |-> 0, rowoff |-> 0, coloff |-> 0,
     row |-> <<>>, dirty |-> 0, filename |-> NoName,
     statusmsg |-> [fmt |-> "", arg |-> <<>>], statusmsg_time |-> 0,
     screenrows |-> ScreenRows, screencols |-> ScreenCols]

\* getline(): the bytes up to and including the first '\n', or all of them
RECURSIVE LineEnd(_, _)
LineEnd(bytes, k) ==
    IF k > Len(bytes) THEN Len(bytes)
    ELSE IF bytes[k] = NL THEN k
    ELSE LineEnd(bytes, k + 1)

RECURSIVE StripEol(_)
StripEol(line) ==
    IF Len(line) > 0 /\ line[Len(line)] \in {NL, 13}
    THEN StripEol(SubSeq(line, 1, Len(line) - 1))
    ELSE line

RECURSIVE OpenLoop(_, _)
OpenLoop(e, bytes) ==
    IF bytes = <<>> THEN e
    ELSE LET n == LineEnd(bytes, 1)
         IN  OpenLoop(editorInsertRow(e, e.numrows, StripEol(SubSeq(bytes, 1, n))),
                      SubSeqFrom(bytes, n + 1))

\* editorOpen(filename) on a file that fopen opens, holding `bytes`
editorOpen(e, filename, bytes) ==
    [OpenLoop([e EXCEPT !.filename = filename], bytes) EXCEPT !.dirty = 0]

\* the files given on the command line: <<name, content>>
Files == { <<<<97>>, <<TAB, NL>>>> }

HelpMessage == "HELP: Ctrl-S = save | Ctrl-Q = quit | Ctrl-F = find"

\* main() up to the first editorReadKey
Startup ==
    { editorRefreshScreen(editorSetStatusMessage(e, HelpMessage, <<>>), <<>>) :
        e \in {initEditor} \cup { editorOpen(initEditor, f[1], f[2]) : f \in Files } }

(***************************************************************************)
(* The interaction loop                                                    *)
(***************************************************************************)
Bounded(e) ==
    /\ Len(editorRowsToString(e)) <= MaxFileLen
    /\ e.dirty <= MaxDirty

SavePrompt == "Save as: %s (ESC to cancel)"
FindPrompt == "Search: %s (ESC to cancel)"
QuitWarning == "WARNING!!! File has unsaved changes. Press Ctrl-Q %d more times to quit."

\* the quit confirmed one keypress early
QuitUnconfirmedEarly(e, qt) == e.dirty # 0 /\ qt > 1

\* if(E.dirty && quit_times > 0): the quit is not yet confirmed
QuitUnconfirmed(e, qt) == e.dirty # 0 /\ qt > 0

\* quit_times = KILO_QUIT_TIMES at the end of editorProcessKeypress
QuitTimesAfterKey(qt) == KILO_QUIT_TIMES

Init ==
    /\ now = 0
    /\ E \in Startup
    /\ quit_times = KILO_QUIT_TIMES
    /\ pc = "main"
    /\ buf = <<>>
    /\ io = "none"
    /\ fault = "none"
    /\ ctrlq_run = 0
    /\ naive = <<>>
    /\ orig = <<>>
    /\ rk = NoRead
    /\ tty = TtyRaw
    /\ op = <<>>

\* editorProcessKeypress for a key that edits or moves, then the next
\* editorRefreshScreen of main's loop
KeypressEdit(c) ==
    /\ pc = "main"
    /\ c \notin {CTRL_Q, CTRL_S, CTRL_F}
    /\ ~(c = ENTER /\ InsertNewLineFault(E) # "none")
    /\ \E e1 \in {ProcessKey(E, c)} :
         /\ Bounded(e1)
         /\ \E g \in Garbage(e1) : E' = editorRefreshScreen(e1, g)
    /\ quit_times' = QuitTimesAfterKey(quit_times)
    /\ ctrlq_run' = 0
    /\ io' = "none"
    /\ UNCHANGED <<pc, buf, fault, naive, orig, rk, tty, now, op>>

\* editorProcessKeypress for Enter where editorInsertNewLine is undefined
KeypressFault ==
    /\ pc = "main"
    /\ InsertNewLineFault(E) # "none"
    /\ fault' = InsertNewLineFault(E)
    /\ E' \in InsertNewLineFaultOutcomes(E, InsertNewLineFault(E))
    /\ tty' = IF E' = E THEN Killed(tty) ELSE tty
    /\ pc' = "fault"
    /\ ctrlq_run' = 0
    /\ io' = "none"
    /\ UNCHANGED <<quit_times, buf, naive, orig, rk, now, op>>

\* Ctrl-Q with the warning formatted after quit_times is lowered
KeypressQuitCountAfter ==
    /\ pc = "main"
    /\ IF QuitUnconfirmed(E, quit_times)
       THEN /\ \E g \in Garbage(E) :
                 E' = editorRefreshScreen(
                          editorSetStatusMessage(E, QuitWarning, <<quit_times - 1>>), g)
            /\ quit_times' = quit_times - 1
            /\ pc' = pc
            /\ tty' = tty
       ELSE /\ pc' = "exit"
            /\ \E ok \in BOOLEAN : tty' = Exit(tty, ok)
            /\ UNCHANGED <<E, quit_times>>
    /\ ctrlq_run' = ctrlq_run + 1
    /\ io' = "none"
    /\ UNCHANGED <<buf, fault, naive, orig, rk, now, op>>

\* case CTRL_KEY('q')
KeypressQuit ==
    /\ pc = "main"
    /\ IF QuitUnconfirmed(E, quit_times)
       THEN /\ \E g \in Garbage(E) :
                 E' = editorRefreshScreen(
                          editorSetStatusMessage(E, QuitWarning, <<quit_times>>), g)
            /\ quit_times' = quit_times - 1
            /\ pc' = pc
            /\ tty' = tty
       ELSE /\ pc' = "exit"
            /\ \E ok \in BOOLEAN : tty' = Exit(tty, ok)
            /\ UNCHANGED <<E, quit_times>>
    /\ ctrlq_run' = ctrlq_run + 1
    /\ io' = "none"
    /\ UNCHANGED <<buf, fault, naive, orig, rk, now, op>>

\* case CTRL_KEY('s'): editorSave, up to editorPrompt's first editorReadKey
\* when there is no filename, else to its end
KeypressSave ==
    /\ pc = "main"
    /\ IF E.filename = NoName
       THEN /\ \E g \in Garbage(E) :
                 E' = editorRefreshScreen(editorSetStatusMessage(E, SavePrompt, <<>>), g)
            /\ pc' = "save_prompt"
            /\ io' = "none"
            /\ UNCHANGED quit_times
       ELSE /\ \E outcome \in IOOutcomes :
                 /\ \E g \in Garbage(E) :
                      E' = editorRefreshScreen(SaveToDisk(E, outcome), g)
                 /\ io' = outcome
            /\ pc' = pc
            /\ quit_times' = QuitTimesAfterKey(quit_times)
    /\ buf' = <<>>
    /\ ctrlq_run' = 0
    /\ UNCHANGED <<fault, naive, orig, rk, tty, now, op>>

\* case CTRL_KEY('f'): editorFind, up to editorPrompt's first editorReadKey
KeypressFind ==
    /\ pc = "main"
    /\ \E g \in Garbage(E) :
         E' = editorRefreshScreen(editorSetStatusMessage(E, FindPrompt, <<>>), g)
    /\ pc' = "find_prompt"
    /\ buf' = <<>>
    /\ ctrlq_run' = 0
    /\ io' = "none"
    /\ UNCHANGED <<quit_times, fault, naive, orig, rk, tty, now, op>>

InPrompt == pc \in {"save_prompt", "find_prompt"}
PromptOf(p) == IF p = "save_prompt" THEN SavePrompt ELSE FindPrompt

\* editorPrompt's buffer without the test for control bytes
PromptBufControls(b, c) ==
    IF c \in {DEL_KEY, CTRL_H, BACKSPACE}
    THEN IF Len(b) # 0 THEN SubSeq(b, 1, Len(b) - 1) ELSE b
    ELSE IF c # ESC /\ c # ENTER /\ c < 128
         THEN Append(b, c)
         ELSE b

\* editorPrompt's buffer after a key that keeps it looping
PromptBuf(b, c) ==
    IF c \in {DEL_KEY, CTRL_H, BACKSPACE}
    THEN IF Len(b) # 0 THEN SubSeq(b, 1, Len(b) - 1) ELSE b
    ELSE IF c # ESC /\ c # ENTER /\ ~iscntrl(c) /\ c < 128
         THEN Append(b, c)
         ELSE b

\* a prompt that hands the keys it does not use itself to the editor
PromptLoopPassThrough(c) ==
    /\ InPrompt
    /\ c # ESC
    /\ ~(c = ENTER /\ Len(buf) # 0)
    /\ Len(PromptBuf(buf, c)) <= MaxBuf
    /\ buf' = PromptBuf(buf, c)
    /\ \E e1 \in {IF c >= 128 /\ c # DEL_KEY THEN ProcessKey(E, c) ELSE E} :
         \E g \in Garbage(e1) :
           E' = editorRefreshScreen(editorSetStatusMessage(e1, PromptOf(pc), buf'), g)
    /\ io' = "none"
    /\ UNCHANGED <<pc, quit_times, fault, ctrlq_run, naive, orig, rk, tty, now, op>>

\* one turn of editorPrompt's loop that does not return: the key, then
\* editorSetStatusMessage and editorRefreshScreen of the next turn
PromptLoop(c) ==
    /\ InPrompt
    /\ c # ESC
    /\ ~(c = ENTER /\ Len(buf) # 0)
    /\ Len(PromptBuf(buf, c)) <= MaxBuf
    /\ buf' = PromptBuf(buf, c)
    /\ \E g \in Garbage(E) :
         E' = editorRefreshScreen(editorSetStatusMessage(E, PromptOf(pc), buf'), g)
    /\ io' = "none"
    /\ UNCHANGED <<pc, quit_times, fault, ctrlq_run, naive, orig, rk, tty, now, op>>

\* a cancelled save that clears the dirty counter like a successful one
SaveAbortedClean(e) ==
    editorSetStatusMessage([e EXCEPT !.filename = NoName, !.dirty = 0],
                           "Save aborted", <<>>)

\* editorSave when editorPrompt returned NULL
SaveAborted(e) ==
    editorSetStatusMessage([e EXCEPT !.filename = NoName], "Save aborted", <<>>)

\* Escape at the prompt: editorPrompt returns NULL, editorSave or editorFind
\* returns, editorProcessKeypress ends
PromptCancel ==
    /\ InPrompt
    /\ LET e1 == editorSetStatusMessage(E, "", <<>>)
       IN  \E e2 \in {IF pc = "save_prompt" THEN SaveAborted(e1) ELSE e1} :
             \E g \in Garbage(e2) : E' = editorRefreshScreen(e2, g)
    /\ pc' = "main"
    /\ buf' = <<>>
    /\ quit_times' = QuitTimesAfterKey(quit_times)
    /\ io' = "none"
    /\ UNCHANGED <<fault, ctrlq_run, naive, orig, rk, tty, now, op>>

\* Enter at the "Save as" prompt with input: editorPrompt returns it and
\* editorSave goes on
PromptAcceptSave ==
    /\ pc = "save_prompt"
    /\ Len(buf) # 0
    /\ \E outcome \in IOOutcomes :
         /\ LET e1 == [editorSetStatusMessage(E, "", <<>>) EXCEPT !.filename = buf]
            IN  \E e2 \in {SaveToDisk(e1, outcome)} :
                  \E g \in Garbage(e2) : E' = editorRefreshScreen(e2, g)
         /\ io' = outcome
    /\ pc' = "main"
    /\ buf' = <<>>
    /\ quit_times' = QuitTimesAfterKey(quit_times)
    /\ UNCHANGED <<fault, ctrlq_run, naive, orig, rk, tty, now, op>>

\* Enter at the "Search" prompt with input: editorPrompt returns it and
\* editorFind scans the rows
PromptAcceptFind ==
    /\ pc = "find_prompt"
    /\ Len(buf) # 0
    /\ \E e1 \in {FindQuery(editorSetStatusMessage(E, "", <<>>), buf)} :
         \E g \in Garbage(e1) : E' = editorRefreshScreen(e1, g)
    /\ pc' = "main"
    /\ buf' = <<>>
    /\ quit_times' = QuitTimesAfterKey(quit_times)
    /\ io' = "none"
    /\ UNCHANGED <<fault, ctrlq_run, naive, orig, rk, tty, now, op>>

Next ==
    \/ \E c \in Keys : KeypressEdit(c)
    \/ KeypressFault
    \/ KeypressQuit
    \/ KeypressSave
    \/ KeypressFind
    \/ \E c \in Keys : PromptLoop(c)
    \/ PromptCancel
    \/ PromptAcceptSave
    \/ PromptAcceptFind

Spec == Init /\ [][Next]_vars

(***************************************************************************)
(* SpecEdit: editorInsertChar and editorDelChar alone, from the empty      *)
(* document, next to a naive string edit                                   *)
(***************************************************************************)
MaxEdits == 5       \* SpecEdit: the dirty counter, which every effective edit raises
EditBytes == {97, TAB, NL}

InitEdit ==
    /\ now = 0
    /\ E = initEditor
    /\ quit_times = KILO_QUIT_TIMES
    /\ pc = "edit"
    /\ buf = <<>>
    /\ io = "none"
    /\ fault = "none"
    /\ ctrlq_run = 0
    /\ naive = <<>>
    /\ orig = <<>>
    /\ rk = NoRead
    /\ tty = TtyRaw
    /\ op = <<>>

EditInsert(c) ==
    /\ pc = "edit"
    /\ \E e1 \in {editorInsertChar(E, c)} : e1.dirty <= MaxEdits /\ E' = e1
    /\ naive' = Append(naive, c)
    /\ UNCHANGED <<quit_times, pc, buf, io, fault, ctrlq_run, orig, rk, tty, now, op>>

EditDelete ==
    /\ pc = "edit"
    /\ \E e1 \in {editorDelChar(E)} : e1.dirty <= MaxEdits /\ E' = e1
    /\ naive' = IF naive = <<>> THEN naive ELSE SubSeq(naive, 1, Len(naive) - 1)
    /\ UNCHANGED <<quit_times, pc, buf, io, fault, ctrlq_run, orig, rk, tty, now, op>>

NextEdit ==
    \/ \E c \in EditBytes : EditInsert(c)
    \/ EditDelete

SpecEdit == InitEdit /\ [][NextEdit]_vars

(***************************************************************************)
(* SpecSplit: editorInsertNewLine, then editorDelChar, on every document   *)
(* and cursor within the bounds                                            *)
(***************************************************************************)
MaxSplitRows == 2   \* SpecSplit: rows of the document
MaxSplitLen == 2    \* SpecSplit: bytes of a row

Strings(n) == UNION { [1..k -> Bytes] : k \in 0..n }

RECURSIVE LoadRows(_, _, _)
LoadRows(e, rows, k) ==
    IF k > Len(rows) THEN e
    ELSE LoadRows(editorInsertRow(e, e.numrows, rows[k]), rows, k + 1)

SplitDocuments ==
    { LoadRows(initEditor, rows, 1) :
        rows \in UNION { [1..k -> Strings(MaxSplitLen)] : k \in 1..MaxSplitRows } }

InitSplit ==
    /\ now = 0
    /\ \E e \in SplitDocuments :
         \E y \in 0..(e.numrows - 1) :
           \E x \in 0..e.row[y + 1].size :
             E = [e EXCEPT !.cx = x, !.cy = y]
    /\ orig = E
    /\ quit_times = KILO_QUIT_TIMES
    /\ pc = "split"
    /\ buf = <<>>
    /\ io = "none"
    /\ fault = "none"
    /\ ctrlq_run = 0
    /\ naive = <<>>
    /\ rk = NoRead
    /\ tty = TtyRaw
    /\ op = <<>>

SplitRow ==
    /\ pc = "split"
    /\ E' = editorInsertNewLine(E)
    /\ pc' = "split_done"
    /\ UNCHANGED <<quit_times, buf, io, fault, ctrlq_run, naive, orig, rk, tty, now, op>>

MergeRow ==
    /\ pc = "split_done"
    /\ E' = editorDelChar(E)
    /\ pc' = "merged"
    /\ UNCHANGED <<quit_times, buf, io, fault, ctrlq_run, naive, orig, rk, tty, now, op>>

NextSplit == SplitRow \/ MergeRow

SpecSplit == InitSplit /\ [][NextSplit]_vars

(***************************************************************************)
(* SpecDecode: one call of editorReadKey, the terminal handing it the      *)
(* result of each read() it makes                                          *)
(***************************************************************************)
MaxIdleReads == 2   \* SpecDecode: reads without a byte before the first byte

BytesRead(reads) == Cardinality({i \in 1..Len(reads) : reads[i] >= 0})

InitDecode ==
    /\ now = 0
    /\ E = initEditor
    /\ quit_times = KILO_QUIT_TIMES
    /\ pc = "readkey"
    /\ buf = <<>>
    /\ io = "none"
    /\ fault = "none"
    /\ ctrlq_run = 0
    /\ naive = <<>>
    /\ orig = <<>>
    /\ rk = NoRead
    /\ tty = TtyRaw
    /\ op = <<>>

\* one read() of editorReadKey yields r
ReadReturns(r) ==
    /\ pc = "readkey"
    /\ rk.res.status = "reading"
    /\ (r = READ_NONE /\ BytesRead(rk.reads) = 0) => Len(rk.reads) < MaxIdleReads
    /\ \E reads \in {Append(rk.reads, r)} :
         rk' = [reads |-> reads, res |-> editorReadKey(reads)]
    /\ UNCHANGED <<E, quit_times, pc, buf, io, fault, ctrlq_run, naive, orig, tty, now, op>>

NextDecode == \E r \in ReadResults : ReadReturns(r)

SpecDecode == InitDecode /\ [][NextDecode]_vars

(***************************************************************************)
(* SpecColumns: editorRowCxToRx and editorRowRxToCx on every row within    *)
(* the bounds, from every byte offset and every display column             *)
(***************************************************************************)
MaxColumnsLen == 3  \* SpecColumns: bytes of the row

\* the rows: every string within the bound, and "ab<TAB>c"
ColumnsRows == Strings(MaxColumnsLen) \cup { <<97, 98, TAB, 99>> }

InitColumns ==
    /\ now = 0
    /\ \E chars \in ColumnsRows :
         \E e \in {LoadRows(initEditor, <<chars>>, 1)} :
           \E x \in 0..e.row[1].size :
             \E r \in 0..e.row[1].rsize :
               E = [e EXCEPT !.cx = x, !.rx = r]
    /\ orig = E
    /\ quit_times = KILO_QUIT_TIMES
    /\ pc = "columns"
    /\ buf = <<>>
    /\ io = "none"
    /\ fault = "none"
    /\ ctrlq_run = 0
    /\ naive = <<>>
    /\ rk = NoRead
    /\ tty = TtyRaw
    /\ op = <<>>

\* E.rx = editorRowCxToRx(&E.row[E.cy], E.cx)
CxToRx ==
    /\ pc = "columns"
    /\ E' = [E EXCEPT !.rx = editorRowCxToRx(E.row[E.cy + 1], E.cx)]
    /\ pc' = "cx_rx"
    /\ UNCHANGED <<quit_times, buf, io, fault, ctrlq_run, naive, orig, rk, tty, now, op>>

\* E.cx = editorRowRxToCx(row, rx) on the column just computed
RxBackToCx ==
    /\ pc = "cx_rx"
    /\ E' = [E EXCEPT !.cx = editorRowRxToCx(E.row[E.cy + 1], E.rx)]
    /\ pc' = "cx_rx_cx"
    /\ UNCHANGED <<quit_times, buf, io, fault, ctrlq_run, naive, orig, rk, tty, now, op>>

\* E.cx = editorRowRxToCx(row, rx) on a given column
RxToCx ==
    /\ pc = "columns"
    /\ E' = [E EXCEPT !.cx = editorRowRxToCx(E.row[E.cy + 1], E.rx)]
    /\ pc' = "rx_cx"
    /\ UNCHANGED <<quit_times, buf, io, fault, ctrlq_run, naive, orig, rk, tty, now, op>>

NextColumns == CxToRx \/ RxBackToCx \/ RxToCx

SpecColumns == InitColumns /\ [][NextColumns]_vars

(***************************************************************************)
(* SpecDelStart: editorDelChar with the cursor at the document's start, on *)
(* the empty document and on every document within the bounds              *)
(***************************************************************************)
MaxDelRows == 2     \* SpecDelStart: rows of the document
MaxDelLen == 2      \* SpecDelStart: bytes of a row
MaxDelDirty == 1    \* SpecDelStart: the dirty counter before the call

DelDocuments ==
    { LoadRows(initEditor, rows, 1) :
        rows \in UNION { [1..k -> Strings(MaxDelLen)] : k \in 0..MaxDelRows } }

InitDelStart ==
    /\ now = 0
    /\ \E e \in DelDocuments :
         \E d \in 0..MaxDelDirty :
           E = [e EXCEPT !.dirty = d]
    /\ orig = E
    /\ quit_times = KILO_QUIT_TIMES
    /\ pc = "del_start"
    /\ buf = <<>>
    /\ io = "none"
    /\ fault = "none"
    /\ ctrlq_run = 0
    /\ naive = <<>>
    /\ rk = NoRead
    /\ tty = TtyRaw
    /\ op = <<>>

DelAtStart ==
    /\ pc = "del_start"
    /\ E' = editorDelChar(E)
    /\ pc' = "del_done"
    /\ UNCHANGED <<quit_times, buf, io, fault, ctrlq_run, naive, orig, rk, tty, now, op>>

NextDelStart == DelAtStart

SpecDelStart == InitDelStart /\ [][NextDelStart]_vars

(***************************************************************************)
(* SpecPrompt: Ctrl-F and Ctrl-S with their prompts, on a taller screen,   *)
(* from every document within the bounds, opened from a file or typed,     *)
(* with the cursor and the scroll offset anywhere the editor can have them *)
(***************************************************************************)
MaxPromptFileLen == 3   \* SpecPrompt: bytes of the file the document comes from
PromptScreenRows == 2   \* SpecPrompt: E.screenrows

FileContents(n) == UNION { [1..k -> {97, TAB, NL}] : k \in 0..n }

\* the document of a file opened at startup, or the same rows typed into an
\* unnamed document, a byte or a line break at a time
PromptDocuments ==
    LET e0 == [initEditor EXCEPT !.screenrows = PromptScreenRows]
    IN  { editorOpen(e0, <<98>>, bytes) : bytes \in FileContents(MaxPromptFileLen) }
        \cup
        { [e1 EXCEPT !.dirty = Len(editorRowsToString(e1))] :
            e1 \in { OpenLoop(e0, bytes) : bytes \in FileContents(MaxPromptFileLen) } }

InitPrompt ==
    /\ now = 0
    /\ \E e \in PromptDocuments :
         \E y \in 0..e.numrows :
           \E x \in 0..(IF y < e.numrows THEN e.row[y + 1].size ELSE 0) :
             \E ro \in 0..y :
               E = editorRefreshScreen(
                       editorSetStatusMessage([e EXCEPT !.cx = x, !.cy = y, !.rowoff = ro],
                                              HelpMessage, <<>>), <<>>)
    /\ quit_times = KILO_QUIT_TIMES
    /\ pc = "main"
    /\ buf = <<>>
    /\ io = "none"
    /\ fault = "none"
    /\ ctrlq_run = 0
    /\ naive = <<>>
    /\ orig = <<>>
    /\ rk = NoRead
    /\ tty = TtyRaw
    /\ op = <<>>

NextPrompt ==
    \/ KeypressSave
    \/ KeypressFind
    \/ \E c \in Keys : PromptLoop(c)
    \/ PromptCancel
    \/ PromptAcceptSave
    \/ PromptAcceptFind

SpecPrompt == InitPrompt /\ [][NextPrompt]_vars

(***************************************************************************)
(* SpecRender: one render pass on screens of several sizes, for every      *)
(* document within the bounds, the empty one included                      *)
(***************************************************************************)
MaxRenderFileLen == 2   \* SpecRender: bytes of the file the document comes from

\* <<E.screenrows, E.screencols>>
RenderScreens == { <<10, 40>>, <<3, 29>>, <<7, 28>>, <<4, 5>>, <<1, 2>> }

InitRender ==
    /\ now = 0
    /\ \E scr \in RenderScreens :
         \E bytes \in FileContents(MaxRenderFileLen) :
           \E e \in {OpenLoop([initEditor EXCEPT !.screenrows = scr[1],
                                                 !.screencols = scr[2]], bytes)} :
             \E y \in 0..e.numrows :
               \E x \in 0..(IF y < e.numrows THEN e.row[y + 1].size ELSE 0) :
                 \E ro \in 0..e.numrows :
                   E = editorSetStatusMessage(
                           [e EXCEPT !.cx = x, !.cy = y, !.rowoff = ro], HelpMessage, <<>>)
    /\ quit_times = KILO_QUIT_TIMES
    /\ pc = "render"
    /\ buf = <<>>
    /\ io = "none"
    /\ fault = "none"
    /\ ctrlq_run = 0
    /\ naive = <<>>
    /\ orig = <<>>
    /\ rk = NoRead
    /\ tty = TtyRaw
    /\ op = <<>>

RenderPass ==
    /\ pc = "render"
    /\ E' = editorRefreshScreen(E, <<>>)
    /\ pc' = "rendered"
    /\ UNCHANGED <<quit_times, buf, io, fault, ctrlq_run, naive, orig, rk, tty, now, op>>

NextRender == RenderPass

SpecRender == InitRender /\ [][NextRender]_vars

(***************************************************************************)
(* SpecOps: one operation, editorInsertRow or the handling of one key, on  *)
(* every document within the bounds, with the cursor and the scroll offset *)
(* anywhere the editor can have them                                       *)
(***************************************************************************)
MaxOpsRows == 3     \* SpecOps: rows of the document
OpsScreenRows == 2  \* SpecOps: E.screenrows is 1..OpsScreenRows

\* the rows of the documents: empty, one byte, a tab first, a tab in the middle
OpsRowTexts == { <<>>, <<97>>, <<TAB, 97>>, <<97, TAB, 97>> }

OpsDocuments ==
    { LoadRows([initEditor EXCEPT !.screenrows = screenrows], rows, 1) :
        screenrows \in 1..OpsScreenRows,
        rows \in UNION { [1..k -> OpsRowTexts] : k \in 0..MaxOpsRows } }

\* the texts handed to editorInsertRow
RowTexts == { <<>>, <<TAB, 97>> }

\* the keys of editorProcessKeypress' switch that edit or move, and byte 10
\* (Ctrl-J), which editorReadKey returns as read and the switch leaves to
\* its default case
OpsKeys == (Keys \cup {NL}) \ {CTRL_Q, CTRL_S, CTRL_F}

InitOps ==
    /\ now = 0
    /\ \E e \in OpsDocuments :
         \E y \in 0..e.numrows :
           \E x \in 0..(IF y < e.numrows THEN e.row[y + 1].size ELSE 0) :
             \E ro \in 0..e.numrows :
               E = editorRefreshScreen([e EXCEPT !.cx = x, !.cy = y, !.rowoff = ro], <<>>)
    /\ orig = E
    /\ quit_times = KILO_QUIT_TIMES
    /\ pc = "op"
    /\ buf = <<>>
    /\ io = "none"
    /\ fault = "none"
    /\ ctrlq_run = 0
    /\ naive = <<>>
    /\ rk = NoRead
    /\ tty = TtyRaw
    /\ op = <<>>

\* editorInsertRow(at, s, len)
InsertRowAt(at, s) ==
    /\ pc = "op"
    /\ E' = editorInsertRow(E, at, s)
    /\ op' = <<"editorInsertRow", at, s>>
    /\ pc' = "done"
    /\ UNCHANGED <<quit_times, buf, io, fault, ctrlq_run, naive, orig, rk, tty, now>>

\* the switch of editorProcessKeypress on the key c
PressKey(c) ==
    /\ pc = "op"
    /\ ~(c = ENTER /\ InsertNewLineFault(E) # "none")
    /\ E' = ProcessKey(E, c)
    /\ op' = <<"key", c>>
    /\ pc' = "done"
    /\ UNCHANGED <<quit_times, buf, io, fault, ctrlq_run, naive, orig, rk, tty, now>>

NextOps ==
    \/ \E at \in -1..(E.numrows + 1) : \E s \in RowTexts : InsertRowAt(at, s)
    \/ \E c \in OpsKeys : PressKey(c)

SpecOps == InitOps /\ [][NextOps]_vars

(***************************************************************************)
(* SpecStatus: one render pass for every file name, row count, dirty       *)
(* state and cursor row, on screens of several widths                      *)
(***************************************************************************)
MaxStatusRows == 10 \* SpecStatus: rows of the document

\* E.screencols
StatusScreenCols == {1, 5, 20, 23, 24, 30, 36, 43, 48}

\* E.filename: none, a short name, a name of more than 20 bytes
StatusFileNames == {NoName, <<97>>, [k \in 1..21 |-> 97]}

InitStatus ==
    /\ now = 0
    /\ \E n \in 0..MaxStatusRows :
         \E e \in {LoadRows([initEditor EXCEPT !.screenrows = 2],
                            [k \in 1..n |-> <<>>], 1)} :
           \E y \in 0..n :
             \E f \in StatusFileNames :
               \E d \in {0, 1} :
                 \E cols \in StatusScreenCols :
                   E = [e EXCEPT !.cy = y, !.filename = f, !.dirty = d,
                                 !.screencols = cols]
    /\ orig = E
    /\ quit_times = KILO_QUIT_TIMES
    /\ pc = "render"
    /\ buf = <<>>
    /\ io = "none"
    /\ fault = "none"
    /\ ctrlq_run = 0
    /\ naive = <<>>
    /\ rk = NoRead
    /\ tty = TtyRaw
    /\ op = <<>>

NextStatus == RenderPass

SpecStatus == InitStatus /\ [][NextStatus]_vars

(***************************************************************************)
(* SpecMessage: status messages set and render passes made while the clock *)
(* advances, on screens narrower and wider than the messages               *)
(***************************************************************************)
MaxClock == 6       \* SpecMessage: the clock, in seconds since the start

\* E.screencols
MessageScreenCols == {5, 12, 20, 48}

\* the messages set: the one of main, the one of a cancelled save, and the
\* empty one editorPrompt leaves
Messages == {HelpMessage, "Save aborted", ""}

InitMessage ==
    /\ now = 0
    /\ \E cols \in MessageScreenCols : E = [initEditor EXCEPT !.screencols = cols]
    /\ orig = E
    /\ quit_times = KILO_QUIT_TIMES
    /\ pc = "render"
    /\ buf = <<>>
    /\ io = "none"
    /\ fault = "none"
    /\ ctrlq_run = 0
    /\ naive = <<>>
    /\ rk = NoRead
    /\ tty = TtyRaw
    /\ op = <<>>

\* a second passes
Tick ==
    /\ now < MaxClock
    /\ now' = now + 1
    /\ pc' = "render"
    /\ UNCHANGED <<E, quit_times, buf, io, fault, ctrlq_run, naive, orig, rk, tty, op>>

\* editorSetStatusMessage(m)
SetMessage(m) ==
    /\ E' = editorSetStatusMessage(E, m, <<>>)
    /\ op' = <<"editorSetStatusMessage", m, now>>
    /\ pc' = "render"
    /\ UNCHANGED <<quit_times, buf, io, fault, ctrlq_run, naive, orig, rk, tty, now>>

NextMessage ==
    \/ Tick
    \/ \E m \in Messages : SetMessage(m)
    \/ RenderPass

SpecMessage == InitMessage /\ [][NextMessage]_vars

(***************************************************************************)
(* SpecTerm: the process from its start: enableRawMode, initEditor,        *)
(* editorOpen, then the interaction loop, with the calls that can fail     *)
(* failing, stdin and stderr on one terminal or on two                     *)
(***************************************************************************)
InitTerm ==
    /\ now = 0
    /\ E = initEditor
    /\ quit_times = KILO_QUIT_TIMES
    /\ pc = "start"
    /\ buf = <<>>
    /\ io = "none"
    /\ fault = "none"
    /\ ctrlq_run = 0
    /\ naive = <<>>
    /\ orig = <<>>
    /\ rk = NoRead
    /\ tty \in {TtyStart(TRUE), TtyStart(FALSE)}
    /\ op = <<>>

\* main: enableRawMode()
StartRawMode ==
    /\ pc = "start"
    /\ \E outcome \in TermiosOutcomes :
         /\ \E ok \in BOOLEAN : tty' = enableRawMode(tty, outcome, ok)
         /\ pc' = IF outcome = "ok" THEN "init" ELSE "exit"
    /\ UNCHANGED <<E, quit_times, buf, io, fault, ctrlq_run, naive, orig, rk, now, op>>

\* main: initEditor(), where getWindowSize succeeds or fails
StartInit ==
    /\ pc = "init"
    /\ \/ /\ pc' = "open"
          /\ tty' = tty
       \/ /\ pc' = "exit"
          /\ \E ok \in BOOLEAN : tty' = die(tty, ok)
    /\ UNCHANGED <<E, quit_times, buf, io, fault, ctrlq_run, naive, orig, rk, now, op>>

\* main: editorOpen(argv[1]) if there is one, where fopen succeeds or
\* fails, editorSetStatusMessage and the first editorRefreshScreen
StartOpen ==
    /\ pc = "open"
    /\ \/ /\ E' \in Startup
          /\ pc' = "main"
          /\ tty' = tty
       \/ /\ \E f \in Files : E' = [E EXCEPT !.filename = f[1]]
          /\ pc' = "exit"
          /\ \E ok \in BOOLEAN : tty' = die(tty, ok)
    /\ UNCHANGED <<quit_times, buf, io, fault, ctrlq_run, naive, orig, rk, now, op>>

\* editorReadKey: read fails with an errno other than EAGAIN, die("read")
ReadDie ==
    /\ pc \in {"main", "save_prompt", "find_prompt"}
    /\ pc' = "exit"
    /\ \E ok \in BOOLEAN : tty' = die(tty, ok)
    /\ UNCHANGED <<E, quit_times, buf, io, fault, ctrlq_run, naive, orig, rk, now, op>>

NextTerm ==
    \/ StartRawMode
    \/ StartInit
    \/ StartOpen
    \/ ReadDie
    \/ Next

SpecTerm == InitTerm /\ [][NextTerm]_vars

(***************************************************************************)
(* Properties                                                              *)
(***************************************************************************)
Reading == pc \in {"main", "save_prompt", "find_prompt"}

\* C1: after any sequence of keypresses 0 <= cy <= numrows, and
\* 0 <= cx <= row[cy].size when cy < numrows, and cx = 0 when cy = numrows.
C1_CursorInvariant ==
    (Reading \/ pc = "exit") =>
        /\ 0 <= E.cy /\ E.cy <= E.numrows
        /\ E.cy < E.numrows => (0 <= E.cx /\ E.cx <= E.row[E.cy + 1].size)
        /\ E.cy = E.numrows => E.cx = 0

\* C2: no operation reads or writes E.row[i] with i >= numrows, and no row
\* is split at an offset greater than its length.
C2_NoRowPastEnd == fault = "none"

\* C3 as claimed: after any sequence of editorInsertChar and editorDelChar
\* from the empty document, editorRowsToString equals the naive string.
C3_EqualsNaiveString == pc = "edit" => editorRowsToString(E) = naive

\* C3 as amended: editorRowsToString is empty before the first insert, and
\* afterwards it is the naive string followed by one newline byte, the
\* document being a single row.
C3_NaiveStringPlusNewline ==
    pc = "edit" =>
        /\ E.dirty = 0 => (naive = <<>> /\ editorRowsToString(E) = <<>>)
        /\ E.dirty # 0 => (E.numrows = 1 /\ editorRowsToString(E) = naive \o <<NL>>)

C3_Witness ==
    /\ pc = "edit"
    /\ Len(naive) = 2
    /\ naive[1] = TAB
    /\ E.dirty = 5

\* the tab expansion of a byte string, by prefixes: a tab becomes the spaces
\* up to the next multiple of 4, every other byte is copied
RECURSIVE TabExpansion(_)
TabExpansion(chars) ==
    IF chars = <<>> THEN <<>>
    ELSE LET n == Len(chars)
             front == TabExpansion(SubSeq(chars, 1, n - 1))
         IN  IF chars[n] = TAB
             THEN front \o [k \in 1..(4 - (Len(front) % 4)) |-> SPACE]
             ELSE Append(front, chars[n])

\* C4: in every state between operations every row's render is the tab
\* expansion of its chars and rsize is the length of that expansion.
C4_RenderFresh ==
    /\ Len(E.row) = E.numrows
    /\ \A i \in 1..E.numrows :
         /\ E.row[i].size = Len(E.row[i].chars)
         /\ E.row[i].render = TabExpansion(E.row[i].chars)
         /\ E.row[i].rsize = Len(TabExpansion(E.row[i].chars))

C4_Witness ==
    /\ pc = "main"
    /\ E.numrows = 1
    /\ E.dirty > 0
    /\ E.row[1].chars = <<97, TAB>>
    /\ E.row[1].render = <<97, SPACE, SPACE, SPACE>>

\* C5: right after editorScroll of a render pass, rowoff <= cy < rowoff +
\* screenrows and coloff <= rx < coloff + screencols, so the cursor is
\* put at a position within 1..screenrows and 1..screencols.
C5_CursorInViewport ==
    Reading =>
        /\ E.rowoff <= E.cy /\ E.cy < E.rowoff + E.screenrows
        /\ E.coloff <= E.rx /\ E.rx < E.coloff + E.screencols
        /\ (E.cy - E.rowoff) + 1 \in 1..E.screenrows
        /\ (E.rx - E.coloff) + 1 \in 1..E.screencols

C5_Witness ==
    /\ pc = "main"
    /\ E.rowoff > 0
    /\ E.coloff > 0

RowsOf(e) == <<e.numrows, [i \in 1..Len(e.row) |-> e.row[i].chars]>>

\* C6: editorInsertNewLine at (cx, cy) and then editorDelChar give back the
\* rows there were: the same row count and the same chars in every row.
C6_SplitMergeInverse == pc = "merged" => RowsOf(E) = RowsOf(orig)

C6_Witness ==
    /\ pc = "merged"
    /\ orig.cx = 1
    /\ orig.cy = 1
    /\ orig.row[2].size = 2
    /\ E.dirty = 5

\* C7: with a dirty document Ctrl-Q ends the editor only as the fourth of
\* four Ctrl-Q keypresses in a row, each of the first three having warned
\* and lowered quit_times by one; any other keypress handled by
\* editorProcessKeypress puts quit_times back to KILO_QUIT_TIMES.
C7_QuitConfirmation ==
    /\ (pc = "exit" /\ E.dirty # 0) => ctrlq_run = KILO_QUIT_TIMES + 1
    /\ pc = "main" => quit_times = KILO_QUIT_TIMES - ctrlq_run
    /\ (pc = "main" /\ ctrlq_run > 0) =>
           /\ E.dirty # 0
           /\ E.statusmsg = [fmt |-> QuitWarning, arg |-> <<quit_times + 1>>]

C7_Witness ==
    /\ pc = "exit"
    /\ E.dirty # 0
    /\ ctrlq_run = KILO_QUIT_TIMES + 1

\* what a save must leave alone: rows, cursor, dirty counter, filename
DocState(e) == <<RowsOf(e), e.cx, e.cy, e.dirty, e.filename>>

\* C8: when open, ftruncate or write of editorSave fails, the rows, the
\* cursor, the dirty counter and the filename are what they were, and the
\* editor keeps running, also when the filename was just entered.
C8_FailedSaveMutatesNothing ==
    [][io' \in {"open_failed", "ftruncate_failed", "write_failed"} =>
           (DocState(E') = DocState(E) /\ pc' = "main")]_vars

\* C9: when the "Save as" prompt is cancelled with Escape nothing is handed
\* to open/ftruncate/write, the rows, the cursor and the dirty counter are
\* unchanged, and the filename stays unset.
C9_CancelledSave ==
    [][(pc = "save_prompt" /\ PromptCancel) =>
           /\ io' = "none"
           /\ DocState(E') = DocState(E)
           /\ E'.filename = NoName
           /\ pc' = "main"]_vars

C9_Witness ==
    /\ pc = "main"
    /\ E.statusmsg.fmt = "Save aborted"
    /\ E.filename = NoName
    /\ E.dirty > 0
    /\ io = "none"

\* C10: in the interaction loop a step that changes the rows raises the
\* dirty counter, a step that does not leaves it unchanged unless it is a
\* successful save, and the counter becomes zero only by a successful save.
C10_DirtyTracking ==
    [][pc' # "fault" =>
           /\ RowsOf(E') # RowsOf(E) => E'.dirty > E.dirty
           /\ RowsOf(E') = RowsOf(E) =>
                  (E'.dirty = E.dirty \/ (io' = "ok" /\ E'.dirty = 0))
           /\ (E'.dirty = 0 /\ E.dirty # 0) => io' = "ok"]_vars

C10_Witness ==
    /\ pc = "main"
    /\ io = "ok"
    /\ E.dirty = 0
    /\ E.numrows = 2
    /\ E.statusmsg.fmt = "%d bytes written to disk"

\* C11 as claimed: one call of editorReadKey consumes at most 3 bytes.
C11_AtMostThreeBytes == pc = "readkey" => BytesRead(rk.reads) <= 3

\* C11 as amended: one call of editorReadKey consumes at most 4 bytes, the
\* first byte and at most three more after an escape byte, the fourth only
\* after ESC [ and a digit; it has returned once 4 bytes are consumed.
C11_AtMostFourBytes ==
    pc = "readkey" =>
        LET s == SelectSeq(rk.reads, LAMBDA r : r >= 0)
        IN  /\ Len(s) <= 4
            /\ Len(s) >= 2 => s[1] = ESC
            /\ Len(s) = 4 => (s[2] = 91 /\ s[3] \in 48..57 /\ rk.res.status = "returned")

C11_Witness ==
    /\ pc = "readkey"
    /\ rk.reads = <<READ_NONE, ESC, 91, 53, 126>>
    /\ rk.res = Returned(PAGE_UP)

\* the escape sequences of the claim and their keys
DecodeTable ==
    (<<ESC, 91, 49, 126>> :> HOME_KEY) @@ (<<ESC, 91, 55, 126>> :> HOME_KEY) @@
    (<<ESC, 91, 72>> :> HOME_KEY) @@ (<<ESC, 79, 72>> :> HOME_KEY) @@
    (<<ESC, 91, 52, 126>> :> END_KEY) @@ (<<ESC, 91, 56, 126>> :> END_KEY) @@
    (<<ESC, 91, 70>> :> END_KEY) @@ (<<ESC, 79, 70>> :> END_KEY) @@
    (<<ESC, 91, 51, 126>> :> DEL_KEY) @@
    (<<ESC, 91, 53, 126>> :> PAGE_UP) @@ (<<ESC, 91, 54, 126>> :> PAGE_DOWN) @@
    (<<ESC, 91, 65>> :> ARROW_UP) @@ (<<ESC, 91, 66>> :> ARROW_DOWN) @@
    (<<ESC, 91, 67>> :> ARROW_RIGHT) @@ (<<ESC, 91, 68>> :> ARROW_LEFT)

\* the results of the reads from the first byte on
RECURSIVE FromFirstByte(_)
FromFirstByte(reads) ==
    IF reads = <<>> \/ reads[1] >= 0 THEN reads
    ELSE FromFirstByte(Tail(reads))

\* C12: when editorReadKey returns, it returns the key of the table for the
\* sequences of the table, Escape for every other sequence that starts with
\* ESC, a read after ESC that yields no byte included, and the first byte
\* itself when it is not ESC.
C12_DecodeTable ==
    (pc = "readkey" /\ rk.res.status = "returned") =>
        LET s == FromFirstByte(rk.reads)
        IN  /\ s # <<>>
            /\ s[1] # ESC => (s = <<s[1]>> /\ rk.res.key = s[1])
            /\ s[1] = ESC =>
                   rk.res.key = IF s \in DOMAIN DecodeTable THEN DecodeTable[s] ELSE ESC

C12_Witness ==
    /\ pc = "readkey"
    /\ rk.reads = <<ESC, 79, 70>>
    /\ rk.res = Returned(END_KEY)

\* the byte offsets of the tabs of a row whose expansion covers column rx
TabsOver(chars, rx) ==
    { t \in 0..(Len(chars) - 1) :
        /\ chars[t + 1] = TAB
        /\ Len(TabExpansion(SubSeq(chars, 1, t))) <= rx
        /\ rx < Len(TabExpansion(SubSeq(chars, 1, t + 1))) }

\* C13: for every row and every byte offset 0 <= cx <= row.size,
\* editorRowRxToCx(row, editorRowCxToRx(row, cx)) = cx; and for a display
\* column inside a tab's expansion editorRowRxToCx gives that tab's offset.
C13_ColumnRoundTrip ==
    /\ pc = "cx_rx_cx" => E.cx = orig.cx
    /\ pc = "rx_cx" => \A t \in TabsOver(E.row[1].chars, E.rx) : E.cx = t

C13_Witness ==
    /\ pc = "rx_cx"
    /\ E.row[1].chars = <<97, TAB, 97>>
    /\ E.rx = 2
    /\ E.cx = 1

\* C14: editorDelChar with cx = 0 and cy = 0 leaves the rows, the row count,
\* the cursor and the dirty counter as they were, for every document.
C14_DelAtStartNoOp ==
    pc = "del_done" =>
        /\ orig.cx = 0 /\ orig.cy = 0
        /\ DocState(E) = DocState(orig)
        /\ E = orig

C14_Witness ==
    /\ pc = "del_done"
    /\ E.numrows = 2
    /\ E.row[1].size = 0
    /\ E.row[2].size = 2
    /\ E.dirty = 1

\* the display columns at which q occurs in a render
Occurrences(render, q) ==
    { k \in 0..(Len(render) - Len(q)) : SubSeq(render, k + 1, k + Len(q)) = q }

\* the rows, by index, whose render contains q
RowsContaining(e, q) ==
    { i \in 0..(e.numrows - 1) : Occurrences(e.row[i + 1].render, q) # {} }

Lowest(S) == CHOOSE m \in S : \A n \in S : m <= n

\* the byte of a row shown at display column col: the bytes before it are
\* those whose expansion ends at or before col
ByteAtColumn(chars, col) ==
    Cardinality({ j \in 1..Len(chars) : Len(TabExpansion(SubSeq(chars, 1, j))) <= col })

\* C15: when the search prompt is confirmed with a query that some row's
\* render contains, the cursor is on the lowest such row, at the byte shown
\* at the column of the query's first occurrence, and after the render that
\* follows that row is the top row of the viewport.
C15_SearchHit ==
    [][(PromptAcceptFind /\ RowsContaining(E, buf) # {}) =>
           LET i == Lowest(RowsContaining(E, buf))
               col == Lowest(Occurrences(E.row[i + 1].render, buf))
           IN  /\ E'.cy = i
               /\ E'.cx = ByteAtColumn(E.row[i + 1].chars, col)
               /\ E'.rowoff = E'.cy
               /\ pc' = "main"]_vars

C15_Witness ==
    /\ pc = "main"
    /\ E.statusmsg.fmt = ""
    /\ E.numrows = 3
    /\ E.row[3].chars = <<97>>
    /\ E.cy = 2
    /\ E.cx = 0
    /\ E.rowoff = 2

\* what a search that finds nothing must leave alone
SearchView(e) == <<e.cx, e.cy, e.rowoff, e.coloff, RowsOf(e), e.dirty>>

\* C16: from Ctrl-F to the end of a search that is cancelled with Escape or
\* confirmed with a query no row's render contains, no step changes the
\* cursor, the scroll offsets, the rows or the dirty counter.
C16_SearchMissOrCancel ==
    [][(/\ pc = "find_prompt" \/ pc' = "find_prompt"
        /\ pc' = "main" => (PromptCancel \/ RowsContaining(E, buf) = {}))
       => SearchView(E') = SearchView(E)]_vars

C16_Witness ==
    /\ pc = "main"
    /\ E.statusmsg.fmt = ""
    /\ E.numrows = 2
    /\ E.cy = E.numrows
    /\ E.rowoff = 1
    /\ E.dirty = 0

\* the input so far after one more key: a delete-class key removes the last
\* byte there is, a printable byte is added at the end, no other key counts
TypedInto(b, c) ==
    IF c \in {BACKSPACE, CTRL_H, DEL_KEY}
    THEN IF b = <<>> THEN b ELSE SubSeq(b, 1, Len(b) - 1)
    ELSE IF c \in 32..126 THEN Append(b, c) ELSE b

Is(chunk, kind, str) == chunk.kind = kind /\ chunk.s = str
Where(ab, kind, str) == { i \in 1..Len(ab) : Is(ab[i], kind, str) }
OfKind(ab, kind) == { i \in 1..Len(ab) : ab[i].kind = kind }
Highest(S) == CHOOSE m \in S : \A n \in S : m >= n

\* the frame of C18 in an append buffer: hide-cursor and cursor-home, then
\* screenrows lines each closed by clear-line and a line break, then the
\* status bar in inverted colours closed by a line break, then the message
\* bar, then one cursor position, then show-cursor
AtomicFrame(ab, screenrows, screencols) ==
    LET crlf == Where(ab, "lit", "CRLF")
        n == Len(ab)
    IN  /\ n >= 2 /\ Is(ab[1], "esc", "ESC[?25l") /\ Is(ab[2], "esc", "ESC[H")
        /\ Where(ab, "esc", "ESC[?25l") = {1}
        /\ Where(ab, "esc", "ESC[?25h") = {n}
        /\ Cardinality(crlf) = screenrows + 1
        /\ LET bar == Highest(crlf)
               rows == crlf \ {bar}
               top == IF rows = {} THEN 2 ELSE Highest(rows)
           IN  /\ \A i \in rows : Is(ab[i - 1], "esc", "ESC[K")
               /\ Where(ab, "esc", "ESC[7m") = {top + 1}
               /\ OfKind(ab, "status") = {top + 2}
               /\ Where(ab, "esc", "ESC[m") = {bar - 1}
               /\ Is(ab[bar + 1], "esc", "ESC[K")
               /\ OfKind(ab, "cursor") = {n - 1}
               /\ \A i \in (bar + 2)..(n - 2) : ab[i].kind = "msg"
               /\ n - 2 <= bar + 2
               /\ ab[n - 1].s[1] \in 1..screenrows
               /\ ab[n - 1].s[2] \in 1..screencols

C19_TerminalRestored ==
    (tty.proc # "running" /\ tty.atexit /\ tty.restore # "failed") =>
        (tty.restore = "ok" /\ tty.stdin = "original")

\* the k-th smallest member of a set of numbers
Nth(S, k) == CHOOSE i \in S : Cardinality({ j \in S : j < i }) = k - 1

\* what a frame shows on screen row y: the chunks from the line break of
\* the row above (or cursor-home) up to the row's own clear-line
ScreenLine(ab, y) ==
    LET crlf == Where(ab, "lit", "CRLF")
        from == IF y = 0 THEN 3 ELSE Nth(crlf, y) + 1
    IN  SubSeq(ab, from, Nth(crlf, y + 1) - 2)

\* C20: a render pass shows the welcome banner on screen row y exactly when
\* the document has no rows and y = screenrows / 3, the banner then being
\* centred within screencols (cut to screencols when it is longer); every
\* other screen row at or past the row count shows '~' alone.
C20_WelcomeBanner ==
    pc = "rendered" =>
        \A y \in 0..(E.screenrows - 1) :
            LET line == ScreenLine(RefreshBuffer(E, TRUE), y)
                banner == OfKind(line, "welcome")
            IN  /\ banner # {} <=> (E.numrows = 0 /\ y = E.screenrows \div 3)
                /\ banner # {} =>
                       LET left == Len(line) - 1
                           shown == line[Len(line)].len
                           right == E.screencols - left - shown
                       IN  /\ banner = {Len(line)}
                           /\ shown = Min(28, E.screencols)
                           /\ right \in {left, left + 1}
                           /\ left > 0 => Is(line[1], "lit", "~")
                           /\ \A i \in 2..left : Is(line[i], "lit", " ")
                /\ (banner = {} /\ y + E.rowoff >= E.numrows) =>
                       (Len(line) = 1 /\ Is(line[1], "lit", "~"))

C20_Witness ==
    /\ pc = "rendered"
    /\ E.numrows = 0
    /\ E.screenrows = 10
    /\ E.screencols = 40
    /\ RefreshBuffer(E, TRUE)[18].kind = "welcome"
    /\ Len(ScreenLine(RefreshBuffer(E, TRUE), 3)) = 7
    /\ ScreenLine(RefreshBuffer(E, TRUE), 4) = <<[kind |-> "lit", s |-> "~", len |-> 1]>>

InsertedRow(e0, e1, at, s) ==
    /\ e1.numrows = e0.numrows + 1
    /\ Len(e1.row) = e1.numrows
    /\ e1.dirty = e0.dirty + 1
    /\ \A i \in 1..at : e1.row[i] = e0.row[i]
    /\ e1.row[at + 1].chars = s
    /\ e1.row[at + 1].size = Len(s)
    /\ e1.row[at + 1].render = TabExpansion(s)
    /\ e1.row[at + 1].rsize = Len(TabExpansion(s))
    /\ \A i \in (at + 1)..e0.numrows : e1.row[i + 1] = e0.row[i]

RowInserted == pc = "done" /\ op[1] = "editorInsertRow"

\* C21 as stated: editorInsertRow(at, text) with at outside [0, numrows]
\* inserts the row at the nearest end, at the front for at < 0 and at the end
\* for at > numrows; the row count and the dirty counter grow by one.
C21_InsertRowClamps ==
    (RowInserted /\ (op[2] < 0 \/ op[2] > orig.numrows)) =>
        InsertedRow(orig, E, IF op[2] < 0 THEN 0 ELSE orig.numrows, op[3])

\* C21, amended: editorInsertRow(at, text) with at outside [0, numrows]
\* changes nothing: no row is inserted, the row count and the dirty counter
\* stay; with at inside [0, numrows] the row is inserted at at, the rows from
\* at on shift by one, and the row count and the dirty counter grow by one.
C21_InsertRowRejects ==
    RowInserted =>
        IF op[2] < 0 \/ op[2] > orig.numrows
        THEN E = orig
        ELSE /\ InsertedRow(orig, E, op[2], op[3])
             /\ [E EXCEPT !.row = orig.row, !.numrows = orig.numrows,
                          !.dirty = orig.dirty] = orig

C21_Witness ==
    /\ pc = "done"
    /\ op = <<"editorInsertRow", 2, <<TAB, 97>>>>
    /\ orig.numrows = 1
    /\ E = orig


KeyPressed(c) == pc = "done" /\ op = <<"key", c>>

\* C22: Enter with the cursor at (cx, cy), cy < numrows and cx within row cy:
\* rows 0..cy-1 are unchanged, row cy is the old chars[0, cx), row cy+1 the
\* old chars[cx, size), the later rows are one further down (row count + 1),
\* and the cursor is at (0, cy + 1); with cx = 0 row cy is empty and the old
\* row lies below it.
C22_NewlineSplit ==
    (KeyPressed(ENTER) /\ orig.cy < orig.numrows) =>
        LET cx == orig.cx
            cy == orig.cy
            old == orig.row[cy + 1].chars
        IN  /\ E.numrows = orig.numrows + 1
            /\ Len(E.row) = E.numrows
            /\ \A i \in 1..cy : E.row[i] = orig.row[i]
            /\ E.row[cy + 1].chars = [k \in 1..cx |-> old[k]]
            /\ E.row[cy + 1].size = cx
            /\ E.row[cy + 2].chars = [k \in 1..(Len(old) - cx) |-> old[cx + k]]
            /\ E.row[cy + 2].size = Len(old) - cx
            /\ \A i \in (cy + 2)..orig.numrows : E.row[i + 1] = orig.row[i]
            /\ E.cx = 0
            /\ E.cy = cy + 1
            /\ cx = 0 => (E.row[cy + 1].chars = <<>> /\ E.row[cy + 2] = orig.row[cy + 1])

C22_Witness ==
    /\ KeyPressed(ENTER)
    /\ orig.numrows = 2
    /\ orig.cy = 0
    /\ orig.cx = 1
    /\ orig.row[1].chars = <<97, TAB, 97>>
    /\ E.numrows = 3
    /\ E.row[1].chars = <<97>>
    /\ E.row[2].chars = <<TAB, 97>>
    /\ E.row[3] = orig.row[2]


\* C23: Backspace (or Ctrl-H) with a valid cursor on a row, cy < numrows: with
\* cx > 0 exactly the byte at cx-1 of row cy is removed and cx becomes cx-1;
\* with cx = 0 and cy > 0 row cy-1 becomes old row cy-1 followed by old row
\* cy, row cy is removed (row count - 1, later rows one up) and the cursor is
\* at (old length of row cy-1, cy-1); every other row is unchanged.
C23_Backspace ==
    \A c \in {BACKSPACE, CTRL_H} :
        (KeyPressed(c) /\ orig.cy < orig.numrows) =>
            LET cx == orig.cx
                cy == orig.cy
                old == orig.row[cy + 1].chars
            IN  /\ cx > 0 =>
                     /\ E.numrows = orig.numrows
                     /\ Len(E.row) = E.numrows
                     /\ E.row[cy + 1].chars =
                            [k \in 1..(Len(old) - 1) |-> IF k < cx THEN old[k] ELSE old[k + 1]]
                     /\ E.row[cy + 1].size = Len(old) - 1
                     /\ \A i \in 1..orig.numrows : i # cy + 1 => E.row[i] = orig.row[i]
                     /\ E.cx = cx - 1
                     /\ E.cy = cy
                /\ (cx = 0 /\ cy > 0) =>
                     LET prev == orig.row[cy].chars
                     IN  /\ E.numrows = orig.numrows - 1
                         /\ Len(E.row) = E.numrows
                         /\ E.row[cy].chars =
                                [k \in 1..(Len(prev) + Len(old)) |->
                                    IF k <= Len(prev) THEN prev[k] ELSE old[k - Len(prev)]]
                         /\ E.row[cy].size = Len(prev) + Len(old)
                         /\ \A i \in 1..(cy - 1) : E.row[i] = orig.row[i]
                         /\ \A i \in (cy + 2)..orig.numrows : E.row[i - 1] = orig.row[i]
                         /\ E.cx = Len(prev)
                         /\ E.cy = cy - 1

C23_Witness ==
    /\ KeyPressed(BACKSPACE)
    /\ orig.numrows = 2
    /\ orig.cy = 1
    /\ orig.cx = 0
    /\ orig.row[1].chars = <<TAB, 97>>
    /\ orig.row[2].chars = <<97, TAB, 97>>
    /\ E.numrows = 1
    /\ E.row[1].chars = <<TAB, 97, 97, TAB, 97>>
    /\ E.cx = 2
    /\ E.cy = 0


\* C24: a typed byte c with a valid cursor: on a row, c is inserted at offset
\* cx of row cy, the later bytes of that row move right by one and cx
\* advances by one; on the virtual row past the end an empty row is appended
\* first, so the row count grows by one and the new last row is the single
\* byte c; no other row changes.
C24_InsertChar ==
    \A c \in Bytes :
        KeyPressed(c) =>
            LET cx == orig.cx
                cy == orig.cy
            IN  /\ E.cx = cx + 1
                /\ E.cy = cy
                /\ Len(E.row) = E.numrows
                /\ \A i \in 1..orig.numrows : i # cy + 1 => E.row[i] = orig.row[i]
                /\ IF cy < orig.numrows
                   THEN LET old == orig.row[cy + 1].chars
                        IN  /\ E.numrows = orig.numrows
                            /\ E.row[cy + 1].size = Len(old) + 1
                            /\ E.row[cy + 1].chars =
                                   [k \in 1..(Len(old) + 1) |->
                                       IF k <= cx THEN old[k]
                                       ELSE IF k = cx + 1 THEN c ELSE old[k - 1]]
                   ELSE /\ E.numrows = orig.numrows + 1
                        /\ E.row[E.numrows].chars = <<c>>
                        /\ E.row[E.numrows].size = 1

C24_Witness ==
    /\ KeyPressed(TAB)
    /\ orig.numrows = 2
    /\ orig.cy = 0
    /\ orig.cx = 1
    /\ orig.row[1].chars = <<97, TAB, 97>>
    /\ E.row[1].chars = <<97, TAB, TAB, 97>>
    /\ E.row[2] = orig.row[2]
    /\ E.cx = 2


\* the bytes of row y of e, none for the virtual row past the end
RowChars(e, y) == IF y < e.numrows THEN e.row[y + 1].chars ELSE <<>>

OnlyCursorMoved == [E EXCEPT !.cx = orig.cx, !.cy = orig.cy] = orig

C26_VerticalClamp ==
    /\ KeyPressed(ARROW_UP) =>
          /\ E.cy = IF orig.cy = 0 THEN 0 ELSE orig.cy - 1
          /\ E.cx = Min(orig.cx, Len(RowChars(orig, E.cy)))
          /\ OnlyCursorMoved
    /\ KeyPressed(ARROW_DOWN) =>
          /\ E.cy = IF orig.cy = orig.numrows THEN orig.cy ELSE orig.cy + 1
          /\ E.cx = Min(orig.cx, Len(RowChars(orig, E.cy)))
          /\ OnlyCursorMoved

C26_Witness ==
    /\ KeyPressed(ARROW_DOWN)
    /\ orig.numrows = 2
    /\ orig.row[1].chars = <<97, TAB, 97>>
    /\ orig.row[2].chars = <<97>>
    /\ orig.cy = 0
    /\ orig.cx = 3
    /\ E.cy = 1
    /\ E.cx = 1


Max(a, b) == IF a > b THEN a ELSE b

\* the least of cx and the lengths of the rows ys of e
LeastLength(e, cx, ys) ==
    CHOOSE m \in {cx} \cup {Len(RowChars(e, y)) : y \in ys} :
        \A n \in {cx} \cup {Len(RowChars(e, y)) : y \in ys} : m <= n

\* C27: PageUp sets cy to rowoff and then steps up screenrows times, PageDown
\* sets cy to min(rowoff + screenrows - 1, numrows) and then steps down
\* screenrows times: cy ends at max(0, rowoff - screenrows) for PageUp and at
\* min(numrows, rowoff + 2*screenrows - 1) for PageDown, and cx ends within
\* the final row's length: it is the least of the old cx and the lengths of
\* the rows the steps arrive on, the final row being the last of them.
C27_Paging ==
    LET sr == orig.screenrows
        down == Min(orig.rowoff + sr - 1, orig.numrows)
    IN  /\ KeyPressed(PAGE_UP) =>
              /\ E = MoveTimes([orig EXCEPT !.cy = orig.rowoff], ARROW_UP, sr)
              /\ E.cy = Max(0, orig.rowoff - sr)
              /\ E.cx <= Len(RowChars(orig, E.cy))
              /\ E.cx = LeastLength(orig, orig.cx,
                                    {Max(0, orig.rowoff - k) : k \in 1..sr})
              /\ OnlyCursorMoved
        /\ KeyPressed(PAGE_DOWN) =>
              /\ E = MoveTimes([orig EXCEPT !.cy = down], ARROW_DOWN, sr)
              /\ E.cy = Min(orig.numrows, orig.rowoff + 2 * sr - 1)
              /\ E.cx <= Len(RowChars(orig, E.cy))
              /\ E.cx = LeastLength(orig, orig.cx,
                                    {Min(orig.numrows, down + k) : k \in 1..sr})
              /\ OnlyCursorMoved

C27_Witness ==
    /\ KeyPressed(PAGE_UP)
    /\ orig.screenrows = 2
    /\ orig.numrows = 3
    /\ orig.rowoff = 3
    /\ orig.cy = 3
    /\ orig.row[2].chars = <<97>>
    /\ E.cy = 1
    /\ E.cx = 0


RECURSIVE SumLenTo(_, _)
SumLenTo(ab, n) == IF n = 0 THEN 0 ELSE SumLenTo(ab, n - 1) + ab[n].len

\* the bytes the chunks of ab come to
SumLen(ab) == SumLenTo(ab, Len(ab))

\* the chunks between the inverse-video on and off sequences
StatusBar(ab) ==
    LET on == Lowest(Where(ab, "esc", "ESC[7m"))
        off == Lowest(Where(ab, "esc", "ESC[m"))
    IN  SubSeq(ab, on + 1, off - 1)

DecimalWidth(n) == IF n < 10 THEN 1 ELSE IF n < 100 THEN 2 ELSE 3

\* the length of "<up to 20 bytes of the name or [No Name]> - <N> lines <(modified)>"
LeftWidth(e) ==
    (IF e.filename = NoName THEN 9 ELSE Min(Len(e.filename), 20))
    + 3 + DecimalWidth(e.numrows) + 7 + (IF e.dirty # 0 THEN 10 ELSE 0)

\* the length of "<cy+1>/<numrows>"
RightWidth(e) == DecimalWidth(e.cy + 1) + 1 + DecimalWidth(e.numrows)

\* the status bar is screencols wide: the left text of e cut to screencols,
\* then spaces alone, then, if withRight, the right text ending at the edge
StatusLayout(bar, e, withRight) ==
    LET n == Len(bar)
    IN  /\ SumLen(bar) = e.screencols
        /\ n >= 1
        /\ bar[1].kind = "status"
        /\ bar[1].s = <<e.filename, e.numrows, e.dirty # 0>>
        /\ bar[1].len = Min(LeftWidth(e), e.screencols)
        /\ IF withRight
           THEN /\ n >= 2
                /\ bar[n].kind = "rstatus"
                /\ bar[n].s = <<e.cy + 1, e.numrows>>
                /\ bar[n].len = RightWidth(e)
                /\ \A i \in 2..(n - 1) : Is(bar[i], "lit", " ")
           ELSE \A i \in 2..n : Is(bar[i], "lit", " ")

\* C28 as stated: for every file name, row count, dirty state, cursor row and
\* screencols the text between the inverse-video sequences is screencols
\* characters: the left text cut to screencols, spaces, and the right-aligned
\* "cy+1/numrows" ending at the last column.
C28_StatusBarLayout ==
    pc = "rendered" => StatusLayout(StatusBar(RefreshBuffer(E, TRUE)), E, TRUE)

\* C28, amended: the text between the inverse-video sequences is screencols
\* characters: the left text cut to screencols, then spaces; the
\* right-aligned "cy+1/numrows" ends at the last column when the left text
\* leaves at least its length free, and is left out, spaces filling the bar,
\* when it does not.
C28_StatusBarLayoutIfRoom ==
    pc = "rendered" =>
        StatusLayout(StatusBar(RefreshBuffer(E, TRUE)), E,
                     E.screencols - LeftWidth(E) >= RightWidth(E))

C28_Witness ==
    /\ pc = "rendered"
    /\ E.screencols = 23
    /\ E.filename = NoName
    /\ E.numrows = 10
    /\ E.cy = 9
    /\ E.dirty = 0
    /\ Len(StatusBar(RefreshBuffer(E, TRUE))) = 3
    /\ Is(StatusBar(RefreshBuffer(E, TRUE))[3], "lit", " ")


\* the chunks of the message bar: from the status bar's line break to the
\* cursor position
MessageBar(ab) ==
    LET off == Lowest(Where(ab, "esc", "ESC[m"))
        cur == Lowest(OfKind(ab, "cursor"))
    IN  SubSeq(ab, off + 2, cur - 1)

\* C29: a render pass draws the status message, cut to screencols, if and
\* only if the message is not empty and its age, the time of the pass minus
\* the time the message was set, is less than 5; otherwise the message bar
\* is the clear-line sequence alone.
C29_MessageExpiry ==
    pc = "rendered" =>
        LET bar == MessageBar(RefreshBufferAt(E, now))
            text == IF op = <<>> THEN "" ELSE op[2]
            age == IF op = <<>> THEN now ELSE now - op[3]
        IN  /\ Len(bar) >= 1
            /\ Is(bar[1], "esc", "ESC[K")
            /\ IF text # "" /\ age < 5
               THEN /\ Len(bar) = 2
                    /\ bar[2].kind = "msg"
                    /\ bar[2].s.fmt = text
                    /\ bar[2].len = Min(Len(text), E.screencols)
               ELSE Len(bar) = 1

C29_Witness ==
    /\ pc = "rendered"
    /\ op = <<"editorSetStatusMessage", "Save aborted", 1>>
    /\ now = 6
    /\ E.screencols = 20
    /\ MessageBar(RefreshBufferAt(E, now)) = <<[kind |-> "esc", s |-> "ESC[K", len |-> 3]>>


\* C30: for every row and every 0 <= cx <= row.size, editorRowCxToRx(row, cx)
\* is the length of the render editorUpdateRow builds for the prefix
\* chars[0, cx); for cx = row.size it is row.rsize, and for the row
\* "ab<TAB>c" it is 4 at cx = 3.
C30_ColumnsAgreeWithRender ==
    pc = "cx_rx" =>
        LET row == E.row[1]
            prefix == [size |-> orig.cx, chars |-> [k \in 1..orig.cx |-> row.chars[k]],
                       rsize |-> 0, render |-> <<>>]
        IN  /\ E.rx = editorUpdateRow(prefix).rsize
            /\ E.rx = Len(editorUpdateRow(prefix).render)
            /\ orig.cx = row.size => E.rx = row.rsize
            /\ (row.chars = <<97, 98, TAB, 99>> /\ orig.cx = 3) => E.rx = 4

C30_Witness ==
    /\ pc = "cx_rx"
    /\ E.row[1].chars = <<97, 98, TAB, 99>>
    /\ E.row[1].render = <<97, 98, SPACE, SPACE, 99>>
    /\ orig.cx = 3
    /\ E.rx = 4


\* C31: Delete with a valid cursor: with cx inside row cy exactly the byte at
\* cx is removed; with cx at the end of row cy and a row below, row cy+1 is
\* joined onto row cy (row count - 1, later rows one up); in both cases the
\* cursor stays at (cx, cy). At the end of the last row and on the virtual
\* row past the end the rows, the dirty counter and the cursor are unchanged.
C31_ForwardDelete ==
    KeyPressed(DEL_KEY) =>
        LET cx == orig.cx
            cy == orig.cy
        IN  /\ E.cx = cx
            /\ E.cy = cy
            /\ Len(E.row) = E.numrows
            /\ (cy < orig.numrows /\ cx < orig.row[cy + 1].size) =>
                 LET old == orig.row[cy + 1].chars
                 IN  /\ E.numrows = orig.numrows
                     /\ E.row[cy + 1].chars =
                            [k \in 1..(Len(old) - 1) |-> IF k <= cx THEN old[k] ELSE old[k + 1]]
                     /\ \A i \in 1..orig.numrows : i # cy + 1 => E.row[i] = orig.row[i]
            /\ (cy + 1 < orig.numrows /\ cx = orig.row[cy + 1].size) =>
                 LET old == orig.row[cy + 1].chars
                     below == orig.row[cy + 2].chars
                 IN  /\ E.numrows = orig.numrows - 1
                     /\ E.row[cy + 1].chars = old \o below
                     /\ \A i \in 1..cy : E.row[i] = orig.row[i]
                     /\ \A i \in (cy + 3)..orig.numrows : E.row[i - 1] = orig.row[i]
            /\ (cy = orig.numrows \/ (cy + 1 = orig.numrows /\ cx = orig.row[cy + 1].size)) =>
                 /\ RowsOf(E) = RowsOf(orig)
                 /\ E.numrows = orig.numrows
                 /\ E.dirty = orig.dirty


\* the number of newline bytes in a byte string
RECURSIVE CountNL(_)
CountNL(s) ==
    IF s = <<>> THEN 0
    ELSE (IF s[1] = NL THEN 1 ELSE 0) + CountNL(SubSeq(s, 2, Len(s)))

\* no row of e holds a newline byte
NoLineBreaks(e) ==
    \A i \in 1..e.numrows : \A k \in 1..e.row[i].size : e.row[i].chars[k] # NL

\* C32: after a keypress handled by editorProcessKeypress on a document whose
\* rows hold no newline byte, no row's chars holds a newline byte, and
\* editorRowsToString has exactly numrows newline bytes.
C32_NoLineBreaks ==
    (pc = "done" /\ op[1] = "key" /\ NoLineBreaks(orig)) =>
        /\ NoLineBreaks(E)
        /\ CountNL(editorRowsToString(E)) = E.numrows


\* the editor state apart from the status message and its time stamp
BesidesMessage(e) ==
    [e EXCEPT !.statusmsg = [fmt |-> "", arg |-> <<>>], !.statusmsg_time = 0]

\* C33: from the entry of editorPrompt (by Ctrl-S or Ctrl-F) until it
\* returns, a keypress of any kind leaves the rows, the row count, the cursor
\* (cx, cy) and the dirty counter as they were: a key that keeps the prompt
\* open changes nothing but the status message and the prompt's buffer, and
\* Escape, which makes it return without input, changes none of them either.
C33_PromptIsModal ==
    [][InPrompt =>
         /\ (InPrompt' \/ PromptCancel) =>
              /\ RowsOf(E') = RowsOf(E)
              /\ E'.numrows = E.numrows
              /\ E'.cx = E.cx
              /\ E'.cy = E.cy
              /\ E'.dirty = E.dirty
         /\ InPrompt' =>
              /\ pc' = pc
              /\ BesidesMessage(E') = BesidesMessage(E)
              /\ E'.statusmsg = [fmt |-> PromptOf(pc), arg |-> buf']
              /\ UNCHANGED <<quit_times, io, fault, ctrlq_run, naive, orig, rk, tty, now, op>>
      ]_vars

C33_Witness ==
    /\ pc = "find_prompt"
    /\ buf = <<97>>
    /\ E.statusmsg = [fmt |-> FindPrompt, arg |-> <<97>>]
    /\ E.numrows = 2
    /\ E.cy = 1
    /\ E.cx = 1
    /\ E.dirty # 0


\* how many Ctrl-Q keypresses in a row, counted from now, end the editor:
\* each one that finds the document dirty and qt > 0 warns and lowers qt
RECURSIVE PressesToQuit(_, _)
PressesToQuit(e, qt) ==
    IF QuitUnconfirmed(e, qt) THEN 1 + PressesToQuit(e, qt - 1) ELSE 1

\* C34: with a dirty document, the warning "Press Ctrl-Q N more times to
\* quit" left by a Ctrl-Q shows the N for which exactly N more Ctrl-Q
\* keypresses in a row end the editor, N being 3, 2, 1 for the first, second
\* and third Ctrl-Q of the run, and the editor ends on the keypress after the
\* warning with N = 1; with a clean document one Ctrl-Q ends the editor and
\* no warning is shown.
C34_QuitWarningTruthful ==
    /\ (pc = "main" /\ ctrlq_run > 0) =>
           /\ E.statusmsg.fmt = QuitWarning
           /\ E.statusmsg.arg \in [1..1 -> 1..KILO_QUIT_TIMES]
           /\ E.statusmsg.arg[1] = PressesToQuit(E, quit_times)
           /\ E.statusmsg.arg[1] = KILO_QUIT_TIMES + 1 - ctrlq_run
    /\ (pc = "exit" /\ E.dirty # 0) =>
           /\ E.statusmsg = [fmt |-> QuitWarning, arg |-> <<1>>]
           /\ ctrlq_run = KILO_QUIT_TIMES + 1
    /\ (pc = "main" /\ E.dirty = 0) => PressesToQuit(E, quit_times) = 1
    /\ (pc = "exit" /\ E.dirty = 0) =>
           /\ ctrlq_run = 1
           /\ E.statusmsg.fmt # QuitWarning

C34_Witness ==
    /\ pc = "main"
    /\ ctrlq_run = 2
    /\ quit_times = 1
    /\ E.dirty # 0
    /\ E.statusmsg = [fmt |-> QuitWarning, arg |-> <<2>>]

====
